---- MODULE Spec2Model ----
(***************************************************************************)
(* Model of the DNS generator of app/services/dns.py (DNSService) and of   *)
(* the request handler that drives it (app/routers/dns.py).                *)
(*                                                                         *)
(* Representation.  A dotted string (a host name, an address, a network)   *)
(* is modelled by the result of str.split('.'): "shop.biz" is              *)
(* <<"shop","biz">>, "10.0.0.5" is <<"10","0","0","5">> and a trailing dot *)
(* shows as a final empty label.  None and "" are both "" (the code only   *)
(* tests them for truth).  A Python dict is a sequence of <<key, value>>   *)
(* pairs in insertion order.  A line of an inventory file is the sequence  *)
(* of its whitespace separated tokens.  A line of an output file is        *)
(* <<owner, type, data>>.                                                  *)
(***************************************************************************)
EXTENDS Integers, Sequences, FiniteSets, TLC

VARIABLES
  inv,               \* the inventory files, by source
  delegations_file,  \* the delegation description
  hosts_named,       \* config.output_dns_hosts_path
  named_conf,        \* config.output_named_conf_path
  root_zd,           \* output_zone_folder/rootsrv
  tld_zd,            \* output_zone_folder/tldsrv
  run,               \* the generate requests: position, options, locals, result
  start,             \* history: the output tree when a request was taken up
  pre,               \* history: output tree and inputs when a run began to generate
  post,              \* history: the output tree when a run returned
  failures,          \* I/O failures the environment may still inject
  edits,             \* inventory edits still allowed
  clock,             \* the time of the filesystem
  mtime,             \* os.path.getmtime of the input files and of named.conf
  status,            \* the response of the status request just served, if any
  stale,             \* history: inputs were changed after they were read
  delegations_text,  \* the bytes of config.delegations_path
  delegations_read,  \* the response of the last GET /delegations, if any
  round_trips,       \* history: the description and the bytes of each PUT /delegations
  reply              \* the outcome of the last inventory edit, if any

out_vars == <<hosts_named, named_conf, root_zd, tld_zd>>

in_vars == <<inv, delegations_file>>

hist_vars == <<start, pre, post>>

time_vars == <<clock, mtime>>

store_vars == <<delegations_text, delegations_read, round_trips>>

vars == <<inv, delegations_file, hosts_named, named_conf, root_zd, tld_zd,
          run, start, pre, post, failures, edits, clock, mtime, status, stale,
          delegations_text, delegations_read, round_trips, reply>>

(***************************************************************************)
(* Bounds of the model.                                                    *)
(***************************************************************************)
MaxRuns == 3
MaxFailures == 1
MaxEdits == 1
MaxLines == 2
MaxClock == 2

MaxName == 1

MaxEntries == 2

MaxNs == 2

MaxPuts == 3

\* the longest sequence of add and remove calls on the custom inventory
MaxCalls == 4

\* the number of validated edits in a row
MaxUpdates == 2

Runs == 1..MaxRuns

(***************************************************************************)
(* The hardcoded infrastructure tiers.                                     *)
(***************************************************************************)
CACHING_NS ==
  << << <<"one","one","one","one">>,
        << <<"1","1","1","1">>, <<"1","0","0","1">> >> >>,
     << <<"dns","google">>,
        << <<"8","8","8","8">>, <<"8","8","4","4">> >> >>,
     << <<"dns","quad9","net">>,
        << <<"9","9","9","9">>, <<"149","112","112","112">> >> >>,
     << <<"a","resolvers","level3","net">>, << <<"4","2","2","1">> >> >>,
     << <<"b","resolvers","level3","net">>, << <<"4","2","2","2">> >> >>,
     << <<"c","resolvers","level3","net">>, << <<"4","2","2","3">> >> >>,
     << <<"d","resolvers","level3","net">>, << <<"4","2","2","4">> >> >>,
     << <<"e","resolvers","level3","net">>, << <<"4","2","2","5">> >> >>,
     << <<"f","resolvers","level3","net">>, << <<"4","2","2","6">> >> >>,
     << <<"resolver1","opendns","com">>, << <<"208","67","222","222">> >> >>,
     << <<"resolver2","opendns","com">>, << <<"208","67","220","220">> >> >> >>

TOPLEVEL_NS ==
  << << <<"ns","level3","net">>, << <<"4","4","4","8">> >> >>,
     << <<"ns","att","net">>, << <<"12","12","12","24">> >> >>,
     << <<"ns","verisign","com">>, << <<"69","58","181","181">> >> >> >>

ROOT_NS ==
  << << <<"a","root-servers","net">>, << <<"198","41","0","4">> >> >>,
     << <<"b","root-servers","net">>, << <<"192","228","79","201">> >> >>,
     << <<"c","root-servers","net">>, << <<"192","33","4","12">> >> >>,
     << <<"d","root-servers","net">>, << <<"199","7","91","13">> >> >>,
     << <<"e","root-servers","net">>, << <<"192","203","230","10">> >> >>,
     << <<"f","root-servers","net">>, << <<"192","5","5","241">> >> >>,
     << <<"g","root-servers","net">>, << <<"192","112","36","4">> >> >>,
     << <<"h","root-servers","net">>, << <<"128","63","2","53">> >> >>,
     << <<"i","root-servers","net">>, << <<"192","36","148","17">> >> >>,
     << <<"j","root-servers","net">>, << <<"192","58","128","30">> >> >>,
     << <<"k","root-servers","net">>, << <<"193","0","14","129">> >> >>,
     << <<"l","root-servers","net">>, << <<"199","7","83","42">> >> >>,
     << <<"m","root-servers","net">>, << <<"202","12","27","33">> >> >> >>

(***************************************************************************)
(* Sequences and dicts.                                                    *)
(***************************************************************************)
Min(a, b) == IF a < b THEN a ELSE b

Range(s) == {s[i] : i \in DOMAIN s}

RECURSIVE Flatten(_)
Flatten(ss) == IF ss = <<>> THEN <<>> ELSE Head(ss) \o Flatten(Tail(ss))

DictHas(d, k) == \E i \in DOMAIN d : d[i][1] = k

DictGet(d, k) == d[CHOOSE i \in DOMAIN d : d[i][1] = k][2]

\* d[k] = v: a new key goes last, an existing key keeps its place.
DictSet(d, k, v) ==
  IF DictHas(d, k)
  THEN [i \in DOMAIN d |-> IF d[i][1] = k THEN <<k, v>> ELSE d[i]]
  ELSE Append(d, <<k, v>>)

\* {key(e): value(e) for e in entries}
RECURSIVE DictOf(_)
DictOf(entries) ==
  IF entries = <<>> THEN <<>>
  ELSE LET e == entries[Len(entries)]
       IN DictSet(DictOf(SubSeq(entries, 1, Len(entries) - 1)), e[1], e[2])

\* the (hostname, ip) pairs of "for ns, ips in TIER.items(): for ip in ips"
TierPairs(tier) ==
  Flatten([i \in DOMAIN tier |->
             [j \in DOMAIN tier[i][2] |-> <<tier[i][1], tier[i][2][j]>>]])

InfraPairs == TierPairs(CACHING_NS) \o TierPairs(TOPLEVEL_NS) \o TierPairs(ROOT_NS)

(***************************************************************************)
(* Validators.  int(part) and the label pattern are tabulated over the     *)
(* tokens that occur in the model's inputs.                                *)
(***************************************************************************)
NonNumericTokens == {"abc", ""}

OutOfRangeTokens == {"999", "256"}

BadLabels == {"bad_host", "-x", ""}

_validate_ip(ip) ==
  /\ Len(ip) = 4
  /\ \A i \in 1..4 : ip[i] \notin NonNumericTokens /\ ip[i] \notin OutOfRangeTokens

_validate_fqdn(fqdn) ==
  /\ Len(fqdn) >= 2
  /\ \A i \in DOMAIN fqdn : fqdn[i] \notin BadLabels

_get_tld(fqdn) == IF Len(fqdn) >= 2 THEN fqdn[Len(fqdn)] ELSE ""

\* the label taken from the other end of the name: parts[0]
_get_sld_first_label(fqdn) == IF Len(fqdn) >= 2 THEN fqdn[1] ELSE ""

_get_sld(fqdn) == IF Len(fqdn) >= 2 THEN fqdn[Len(fqdn) - 1] ELSE ""

\* s[:-len(tld)-1] for a name s whose last label is tld
WithoutTld(name) == SubSeq(name, 1, Len(name) - 1)

(***************************************************************************)
(* Files and directories.                                                  *)
(***************************************************************************)
NoFile == [exists |-> FALSE, content |-> <<>>]

FileOf(c) == [exists |-> TRUE, content |-> c]

\* open(path, 'a'): creates the file when it is missing
FileAppend(f, ls) == [exists |-> TRUE, content |-> f.content \o ls]

EmptyFiles == [k \in {} |-> <<>>]

NoDir == [exists |-> FALSE, files |-> EmptyFiles]

EmptyDir == [exists |-> TRUE, files |-> EmptyFiles]

\* os.makedirs(d, exist_ok=True)
MakeDirs(d) == [d EXCEPT !.exists = TRUE]

\* open(os.path.join(dir, key + ".zone"), 'a') on the files of a directory
ZoneAppend(files, key, ls) ==
  IF key \in DOMAIN files
  THEN [files EXCEPT ![key] = @ \o ls]
  ELSE files @@ (key :> ls)

(***************************************************************************)
(* Delegation Store: parse_delegations_file.  A section entry is           *)
(* <<key, value>>; the pattern ['([^']+)']='([^']+)' skips an entry whose  *)
(* key or value is empty.                                                  *)
(***************************************************************************)
NoDelegations ==
  [exists |-> FALSE, forward |-> <<>>, reverse |-> <<>>, nameservers |-> <<>>]

RECURSIVE MatchedEntries(_)
MatchedEntries(entries) ==
  IF entries = <<>> THEN <<>>
  ELSE LET e == Head(entries)
       IN (IF e[1] = <<"">> \/ e[2] = <<>> THEN <<>> ELSE <<e>>)
            \o MatchedEntries(Tail(entries))

parse_delegations_file(f) ==
  IF ~f.exists
  THEN [forward |-> <<>>, reverse |-> <<>>, nameservers |-> <<>>]
  ELSE [forward |-> MatchedEntries(f.forward),
        reverse |-> MatchedEntries(f.reverse),
        nameservers |-> MatchedEntries(f.nameservers)]

(***************************************************************************)
(* Host Collector: _add_hosts_to_list.                                     *)
(***************************************************************************)
\* a slice one octet short: [:2]
IpNetworkFirstTwo(ipaddr) == SubSeq(ipaddr, 1, Min(2, Len(ipaddr)))

\* '.'.join(ipaddr.split('.')[:3])
IpNetwork(ipaddr) == SubSeq(ipaddr, 1, Min(3, Len(ipaddr)))

\* a list that takes an exchanger only once
DictAppendOnce(d, k, v) ==
  IF DictHas(d, k)
  THEN (IF v \in Range(DictGet(d, k)) THEN d ELSE DictSet(d, k, Append(DictGet(d, k), v)))
  ELSE Append(d, <<k, <<v>> >>)

\* domain_mx[domain].append(fqdn), creating the list first
DictAppend(d, k, v) ==
  IF DictHas(d, k) THEN DictSet(d, k, Append(DictGet(d, k), v))
  ELSE Append(d, <<k, <<v>> >>)

NoHosts == [hosts_list |-> <<>>, domain_mx |-> <<>>, warnings |-> <<>>, skipped |-> 0]

\* a line whose skip is counted only when it is warned about
AddHostLineQuietUncounted(st, line, fwd, rev, is_mx, quiet) ==
  IF Len(line) < 2 THEN st
  ELSE
    LET ipaddr == line[1]
        fqdn == line[2]
        tld == _get_tld(fqdn)
        sld == _get_sld(fqdn)
        domain == <<sld, tld>>
        ip_network == IpNetwork(ipaddr)
    IN IF tld = "" \/ sld = "" THEN st
       ELSE IF DictHas(fwd, domain)
       THEN [st EXCEPT
               !.warnings = IF quiet THEN @
                            ELSE Append(@, <<"skip_fwd", fqdn, domain>>),
               !.skipped = IF quiet THEN @ ELSE @ + 1]
       ELSE IF DictHas(rev, ip_network)
       THEN [st EXCEPT
               !.warnings = IF quiet THEN @
                            ELSE Append(@, <<"skip_rev", fqdn, ipaddr, ip_network>>),
               !.skipped = IF quiet THEN @ ELSE @ + 1]
       ELSE [st EXCEPT
               !.hosts_list = DictSet(@, fqdn, ipaddr),
               !.domain_mx = IF is_mx THEN DictAppend(@, domain, fqdn) ELSE @]

\* the body of the loop over the lines of one file
AddHostLine(st, line, fwd, rev, is_mx, quiet) ==
  IF Len(line) < 2 THEN st
  ELSE
    LET ipaddr == line[1]
        fqdn == line[2]
        tld == _get_tld(fqdn)
        sld == _get_sld(fqdn)
        domain == <<sld, tld>>
        ip_network == IpNetwork(ipaddr)
    IN IF tld = "" \/ sld = "" THEN st
       ELSE IF DictHas(fwd, domain)
       THEN [st EXCEPT
               !.warnings = IF quiet THEN @
                            ELSE Append(@, <<"skip_fwd", fqdn, domain>>),
               !.skipped = @ + 1]
       ELSE IF DictHas(rev, ip_network)
       THEN [st EXCEPT
               !.warnings = IF quiet THEN @
                            ELSE Append(@, <<"skip_rev", fqdn, ipaddr, ip_network>>),
               !.skipped = @ + 1]
       ELSE [st EXCEPT
               !.hosts_list = DictSet(@, fqdn, ipaddr),
               !.domain_mx = IF is_mx THEN DictAppend(@, domain, fqdn) ELSE @]

RECURSIVE _add_hosts_to_list(_, _, _, _, _, _)
_add_hosts_to_list(st, lines, fwd, rev, is_mx, quiet) ==
  IF lines = <<>> THEN st
  ELSE _add_hosts_to_list(AddHostLine(st, Head(lines), fwd, rev, is_mx, quiet),
                          Tail(lines), fwd, rev, is_mx, quiet)

\* parse_hosts_file: the entries of a file that pass both validators
ValidEntries(lines) ==
  SelectSeq(lines, LAMBDA l : Len(l) >= 2 /\ _validate_ip(l[1]) /\ _validate_fqdn(l[2]))

\* get_vhost_hosts_files lists a virtual host's file only when it has a valid entry
SourceIsRead(files, src) ==
  /\ files[src].exists
  /\ src = "vhost" => ValidEntries(files[src].lines) # <<>>

\* the mail hosts read before the others
ProcessingOrderMailFirst == <<"mail", "vhost", "backbone", "custom", "extra">>

\* the order in which generate_dns_config reads the inventories
ProcessingOrder == <<"vhost", "backbone", "custom", "extra", "mail">>

Sources == Range(ProcessingOrder)

RECURSIVE CollectFrom(_, _, _, _, _, _)
CollectFrom(st, order, files, fwd, rev, quiet) ==
  IF order = <<>> THEN st
  ELSE LET src == Head(order)
           st1 == IF SourceIsRead(files, src)
                  THEN _add_hosts_to_list(st, files[src].lines, fwd, rev,
                                          src = "mail", quiet)
                  ELSE st
       IN CollectFrom(st1, Tail(order), files, fwd, rev, quiet)

\* "Add delegation nameservers": the nameserver-IP pairs go in last
RECURSIVE MergeNameservers(_, _, _)
MergeNameservers(st, nsd, quiet) ==
  IF nsd = <<>> THEN st
  ELSE LET ns == Head(nsd)[1]
           ip == Head(nsd)[2]
           clash == DictHas(st.hosts_list, ns) /\ DictGet(st.hosts_list, ns) # ip
           st1 == [st EXCEPT
                     !.warnings = IF clash /\ ~quiet
                                  THEN Append(@, <<"ns_conflict", ns,
                                                   DictGet(st.hosts_list, ns), ip>>)
                                  ELSE @,
                     !.hosts_list = DictSet(@, ns, ip)]
       IN MergeNameservers(st1, Tail(nsd), quiet)

\* the nameserver-IP pairs put in the host table before the inventories are read
CollectHostsNameserversFirst(files, dfile, quiet) ==
  LET d == parse_delegations_file(dfile)
  IN CollectFrom(MergeNameservers(NoHosts, DictOf(d.nameservers), quiet),
                 ProcessingOrder, files, DictOf(d.forward), DictOf(d.reverse), quiet)

\* lines 626-697 of generate_dns_config on the files as they are read
CollectHosts(files, dfile, quiet) ==
  LET d == parse_delegations_file(dfile)
      fwd == DictOf(d.forward)
      rev == DictOf(d.reverse)
      nsd == DictOf(d.nameservers)
  IN MergeNameservers(CollectFrom(NoHosts, ProcessingOrder, files, fwd, rev, quiet),
                      nsd, quiet)

(***************************************************************************)
(* Zone Builder and emitters.  W is what a run writes to: the files of     *)
(* tldsrv, named.conf, root.zone, and the run's created_zones set.         *)
(***************************************************************************)
Dot(name) == name \o <<"">>

TierNames(tier) == [i \in DOMAIN tier |-> tier[i][1]]

\* _generate_dns_hosts_file
DnsHostsLines == [i \in DOMAIN InfraPairs |-> <<InfraPairs[i][2], InfraPairs[i][1]>>]

AclLines(acl, tier) ==
  LET ps == TierPairs(tier)
  IN [i \in DOMAIN ps |-> <<"acl", <<acl>> \o ps[i][1], ps[i][2]>>]

\* _generate_named_conf: ACLs, options, logging, the caching and rootsrv
\* views, and the opening of the tldsrv view
NamedConfPreamble ==
  AclLines("cache_addrs", CACHING_NS) \o AclLines("root_addrs", ROOT_NS)
    \o AclLines("tld_addrs", TOPLEVEL_NS)
    \o << <<"options", <<"recursion", "no">>, <<>> >>,
          <<"logging", <<>>, <<>> >>,
          <<"view", <<"caching">>, <<"cache_addrs">> >>,
          <<"hint", <<"">>, <<"named", "root">> >>,
          <<"endview", <<>>, <<>> >>,
          <<"view", <<"rootsrv">>, <<"root_addrs">> >>,
          <<"zone", <<"">>, <<"rootsrv", "root">> >>,
          <<"endview", <<>>, <<>> >>,
          <<"view", <<"tldsrv">>, <<"tld_addrs">> >> >>

GlueLines(tier) ==
  LET ps == TierPairs(tier)
  IN [i \in DOMAIN ps |-> <<Dot(ps[i][1]), "A", ps[i][2]>>]

\* _generate_root_zone
RootZoneHeader ==
  << << <<>>, "$TTL", <<"300">> >>,
     << <<>>, "$ORIGIN", <<"@">> >>,
     << <<"@">>, "SOA", Dot(<<"a", "root-servers", "net">>) >> >>
    \o [i \in DOMAIN ROOT_NS |-> << <<>>, "NS", Dot(ROOT_NS[i][1]) >>]
    \o GlueLines(ROOT_NS)
    \o << << <<>>, ";", <<"reverse">> >> >>
    \o [i \in DOMAIN TOPLEVEL_NS |->
          << Dot(<<"in-addr", "arpa">>), "NS", Dot(TOPLEVEL_NS[i][1]) >>]
    \o GlueLines(TOPLEVEL_NS)
    \o << << <<>>, ";", <<"caching">> >> >>
    \o GlueLines(CACHING_NS)
    \o << << <<>>, ";", <<"data">> >> >>

\* _get_tld_zone_header
TldZoneHeader ==
  << << <<>>, "$TTL", <<"300">> >>,
     << <<>>, "$ORIGIN", <<"@">> >>,
     << <<"@">>, "SOA", Dot(<<"ns", "level3", "net">>) >> >>
    \o [i \in DOMAIN TOPLEVEL_NS |-> << <<>>, "NS", Dot(TOPLEVEL_NS[i][1]) >>]
    \o GlueLines(TOPLEVEL_NS)
    \o << << <<>>, ";", <<"data">> >> >>

ZoneStanza(name, key) == <<"zone", name, <<"tldsrv", key>> >>

\* _create_forward_zone: nothing at all when the zone file is already there
_create_forward_zone(W, tld) ==
  IF tld \in DOMAIN W.files THEN W
  ELSE [W EXCEPT
          !.files = @ @@ (tld :> TldZoneHeader),
          !.conf = Append(@, ZoneStanza(<<tld>>, tld)),
          !.root = @ \o [i \in DOMAIN TOPLEVEL_NS |->
                           << <<tld, "">>, "NS", TOPLEVEL_NS[i][1] >>]]

\* _create_reverse_zone
_create_reverse_zone(W, ip1) ==
  IF ip1 \in DOMAIN W.files THEN W
  ELSE [W EXCEPT
          !.files = @ @@ (ip1 :> TldZoneHeader),
          !.conf = Append(@, ZoneStanza(<<ip1, "in-addr", "arpa", "">>, ip1))]

\* the A record of a pair without its PTR record and reverse zone
add_dns_records_forward_only(W, fqdn, ipaddr) ==
  LET tld == _get_tld(fqdn) IN
  IF tld = "" THEN W
  ELSE
    LET W1 == IF tld \notin W.created
              THEN [_create_forward_zone(W, tld) EXCEPT !.created = @ \cup {tld}]
              ELSE W
    IN [W1 EXCEPT
          !.files = ZoneAppend(@, tld, << <<WithoutTld(fqdn), "A", ipaddr>> >>)]

\* add_dns_records(fqdn, ipaddr)
add_dns_records(W, fqdn, ipaddr) ==
  LET tld == _get_tld(fqdn) IN
  IF tld = "" THEN W
  ELSE
    LET W1 == IF tld \notin W.created
              THEN [_create_forward_zone(W, tld) EXCEPT !.created = @ \cup {tld}]
              ELSE W
        W2 == [W1 EXCEPT
                 !.files = ZoneAppend(@, tld, << <<WithoutTld(fqdn), "A", ipaddr>> >>)]
        ip1 == ipaddr[1]
        W3 == IF ip1 \notin W2.created
              THEN [_create_reverse_zone(W2, ip1) EXCEPT !.created = @ \cup {ip1}]
              ELSE W2
    IN IF Len(ipaddr) = 4
       THEN [W3 EXCEPT
               !.files = ZoneAppend(@, ip1,
                           << << <<ipaddr[4], ipaddr[3], ipaddr[2]>>, "PTR", Dot(fqdn) >> >>)]
       ELSE W2

RECURSIVE AddAllRecords(_, _)
\* (no key is ".": the second test is never true, it makes W a value before
\* the next pair is taken)
AddAllRecords(W, pairs) ==
  IF pairs = <<>> \/ W.created = {"."} THEN W
  ELSE AddAllRecords(add_dns_records(W, Head(pairs)[1], Head(pairs)[2]), Tail(pairs))

\* "Add delegation NS records", forward
RECURSIVE ForwardDelegationNS(_, _, _)
ForwardDelegationNS(files, created, fwd) ==
  IF fwd = <<>> THEN files
  ELSE LET domain == Head(fwd)[1]
           nameservers == Head(fwd)[2]
           tld == _get_tld(domain)
           ls == [i \in DOMAIN nameservers |->
                    <<WithoutTld(domain), "NS", Dot(nameservers[i])>>]
           files1 == IF tld # "" /\ tld \in created
                     THEN ZoneAppend(files, tld, ls) ELSE files
       IN ForwardDelegationNS(files1, created, Tail(fwd))

\* "Add delegation NS records", reverse
RECURSIVE ReverseDelegationNS(_, _, _)
ReverseDelegationNS(files, created, rev) ==
  IF rev = <<>> THEN files
  ELSE LET net_parts == Head(rev)[1]
           nameservers == Head(rev)[2]
           ls == [i \in DOMAIN nameservers |->
                    << <<net_parts[3], net_parts[2]>>, "NS", Dot(nameservers[i]) >>]
           files1 == IF Len(net_parts) >= 3 /\ net_parts[1] \in created
                     THEN ZoneAppend(files, net_parts[1], ls) ELSE files
       IN ReverseDelegationNS(files1, created, Tail(rev))

\* "Add MX records"
RECURSIVE MxRecords(_, _, _)
MxRecords(files, created, domain_mx) ==
  IF domain_mx = <<>> THEN files
  ELSE LET domain == Head(domain_mx)[1]
           mx_servers == Head(domain_mx)[2]
           tld == _get_tld(domain)
           ls == [i \in DOMAIN mx_servers |->
                    <<WithoutTld(domain), "MX", <<"10">> \o Dot(mx_servers[i])>>]
           files1 == IF tld # "" /\ tld \in created
                     THEN ZoneAppend(files, tld, ls) ELSE files
       IN MxRecords(files1, created, Tail(domain_mx))

(***************************************************************************)
(* The generate requests.  A request is new (not yet made), queued (made,  *)
(* waiting for the event loop), at one of the phases of                    *)
(* generate_dns_config, or done (the result was returned).                 *)
(***************************************************************************)
NoResult ==
  [returned |-> FALSE, success |-> FALSE, zones_created |-> 0,
   hosts_processed |-> 0, hosts_skipped |-> 0, warnings |-> <<>>, errors |-> <<>>]

NewRun ==
  [pc |-> "new", force |-> FALSE, quiet |-> FALSE, hosts |-> NoHosts,
   fwd |-> <<>>, rev |-> <<>>, hosts_processed |-> 0, created_zones |-> {},
   result |-> NoResult]

Phases == {"clean", "prepare", "base", "records", "finish"}

InProgress(r) == run[r].pc \in Phases

Out == [hosts_named |-> hosts_named, named_conf |-> named_conf,
        root_zd |-> root_zd, tld_zd |-> tld_zd]

NoOut == [hosts_named |-> NoFile, named_conf |-> NoFile,
          root_zd |-> NoDir, tld_zd |-> NoDir]

NoPre == [began |-> FALSE, out |-> NoOut,
          inv |-> [src \in {} |-> <<>>], delegations_file |-> NoDelegations]

\* the exception handler returning a result with an empty errors list
RaisedWithoutErrors(rn, msg) ==
  [rn EXCEPT
     !.pc = "done",
     !.result = [returned |-> TRUE, success |-> FALSE, zones_created |-> 0,
                 hosts_processed |-> rn.hosts_processed,
                 hosts_skipped |-> rn.hosts.skipped,
                 warnings |-> rn.hosts.warnings, errors |-> <<>>]]

\* the "except Exception as e" result of generate_dns_config
Raised(rn, msg) ==
  [rn EXCEPT
     !.pc = "done",
     !.result = [returned |-> TRUE, success |-> FALSE, zones_created |-> 0,
                 hosts_processed |-> rn.hosts_processed,
                 hosts_skipped |-> rn.hosts.skipped,
                 warnings |-> rn.hosts.warnings, errors |-> <<msg>>]]

\* the test without its "not"
RefusesInvertedFlag(force) == force /\ named_conf.exists

\* "Check for existing configuration"
Refuses(force) == ~force /\ named_conf.exists

\* a handler that would run in a pool of threads, whenever a request waits
CanDispatchInThreadPool(r) == TRUE

\* The handler of POST /generate is a coroutine that calls the generator
\* without awaiting: the event loop takes up the next request only when the
\* handler it is running has returned.
CanDispatch(r) == \A q \in Runs : ~InProgress(q)

NoStatus ==
  [asked |-> FALSE, configured |-> FALSE, zone_count |-> 0,
   web_hosts_count |-> 0, mail_hosts_count |-> 0, backbone_hosts_count |-> 0,
   needs_regeneration |-> FALSE]

\* What a step of a handler does to the times: a write to named.conf (every
\* write of generate_dns_config to it changes its content) gives it the
\* time of the clock; a status response is gone with the next request.
Filed ==
  /\ clock' = clock
  /\ mtime' = [mtime EXCEPT !["named_conf"] =
                 IF named_conf'.exists /\ named_conf' # named_conf THEN clock ELSE @]
  /\ status' = NoStatus

\* POST /api/dns/generate arrives
Request(r, force, quiet) ==
  /\ run[r].pc = "new"
  /\ \A q \in Runs : q < r => run[q].pc # "new"
  /\ run' = [run EXCEPT ![r] = [@ EXCEPT !.pc = "queued", !.force = force,
                                         !.quiet = quiet]]
  /\ UNCHANGED <<in_vars, out_vars, hist_vars, failures, edits, stale>>
  /\ Filed
  /\ UNCHANGED <<store_vars, reply>>

\* generate_dns_config, lines 580-605: the request is taken up and refused
\* when the server configuration exists and force_overwrite is not set
Dispatch(r) ==
  /\ run[r].pc = "queued"
  /\ \A q \in Runs : q < r => run[q].pc # "queued"
  /\ CanDispatch(r)
  /\ start' = [start EXCEPT ![r] = Out]
  /\ IF Refuses(run[r].force)
     THEN /\ run' = [run EXCEPT ![r] =
                       [@ EXCEPT !.pc = "done",
                                 !.result = [NoResult EXCEPT
                                               !.returned = TRUE,
                                               !.errors = <<"already exists">>]]]
          /\ post' = [post EXCEPT ![r] = Out]
     ELSE /\ run' = [run EXCEPT ![r] =
                       [@ EXCEPT !.pc = IF run[r].force THEN "clean" ELSE "prepare"]]
          /\ post' = post
  /\ UNCHANGED <<in_vars, out_vars, pre, failures, edits, stale>>
  /\ Filed
  /\ UNCHANGED <<store_vars, reply>>

\* a clean-up that leaves the zone directory as it is
ForceCleanTldKeeps(d) == d

\* shutil.rmtree(tld_zd) of "Force overwrite if requested"
ForceCleanTld(d) == NoDir

\* "Force overwrite if requested": the first k of the four removals
CleanUpTo(k) ==
  /\ hosts_named' = IF k >= 1 THEN NoFile ELSE hosts_named
  /\ named_conf' = IF k >= 2 THEN NoFile ELSE named_conf
  /\ root_zd' = IF k >= 3 THEN NoDir ELSE root_zd
  /\ tld_zd' = IF k >= 4 THEN ForceCleanTld(tld_zd) ELSE tld_zd

Clean(r) ==
  /\ run[r].pc = "clean"
  /\ CleanUpTo(4)
  /\ run' = [run EXCEPT ![r] = [@ EXCEPT !.pc = "prepare"]]
  /\ UNCHANGED <<in_vars, hist_vars, failures, edits, stale>>
  /\ Filed
  /\ UNCHANGED <<store_vars, reply>>

\* "Create output directories", "Load delegations", "Build hosts list",
\* "Add delegation nameservers", "Count total hosts"
Prepare(r) ==
  /\ run[r].pc = "prepare"
  /\ root_zd' = MakeDirs(root_zd)
  /\ tld_zd' = MakeDirs(tld_zd)
  /\ pre' = [pre EXCEPT ![r] = [began |-> TRUE, out |-> Out, inv |-> inv,
                                delegations_file |-> delegations_file]]
  /\ LET d == parse_delegations_file(delegations_file)
         h == CollectHosts(inv, delegations_file, run[r].quiet)
     IN run' = [run EXCEPT ![r] =
                  [@ EXCEPT !.pc = "base",
                            !.fwd = DictOf(d.forward),
                            !.rev = DictOf(d.reverse),
                            !.hosts = h,
                            !.hosts_processed = Len(h.hosts_list) + Len(CACHING_NS)
                                                  + Len(TOPLEVEL_NS) + Len(ROOT_NS)]]
  /\ stale' = [stale EXCEPT !.during = FALSE]
  /\ UNCHANGED <<in_vars, hosts_named, named_conf, start, post, failures, edits>>
  /\ Filed
  /\ UNCHANGED <<store_vars, reply>>

\* _generate_dns_hosts_file, _generate_named_conf, _generate_root_zone: the
\* first k of the three files
BaseUpTo(k) ==
  /\ hosts_named' = IF k >= 1 THEN FileOf(DnsHostsLines) ELSE hosts_named
  /\ named_conf' = IF k >= 2 THEN FileOf(NamedConfPreamble) ELSE named_conf
  /\ root_zd' = IF k >= 3
                THEN [root_zd EXCEPT !.files = ("root" :> RootZoneHeader)]
                ELSE root_zd

WriteBase(r) ==
  /\ run[r].pc = "base"
  /\ IF root_zd.exists
     THEN /\ BaseUpTo(3)
          /\ run' = [run EXCEPT ![r] = [@ EXCEPT !.pc = "records", !.created_zones = {}]]
          /\ post' = post
     ELSE /\ BaseUpTo(2)
          /\ run' = [run EXCEPT ![r] = Raised(@, "no such directory")]
          /\ post' = [post EXCEPT ![r] = [Out EXCEPT !.hosts_named = hosts_named',
                                                     !.named_conf = named_conf']]
  /\ UNCHANGED <<in_vars, tld_zd, start, pre, failures, edits, stale>>
  /\ Filed
  /\ UNCHANGED <<store_vars, reply>>

\* the writer state of a run on the output tree as it is now
Writer(r) ==
  [files |-> tld_zd.files, conf |-> named_conf.content,
   root |-> IF "root" \in DOMAIN root_zd.files THEN root_zd.files["root"] ELSE <<>>,
   created |-> run[r].created_zones]

WriteBack(W) ==
  /\ tld_zd' = [tld_zd EXCEPT !.files = W.files]
  /\ named_conf' = IF W.conf = named_conf.content THEN named_conf ELSE FileOf(W.conf)
  /\ root_zd' = IF "root" \notin DOMAIN root_zd.files /\ W.root = <<>>
                THEN root_zd
                ELSE [root_zd EXCEPT !.files = ("root" :> W.root)]

\* the (fqdn, ip) pairs of the zone generation loops, in order
RecordPairs(r) == run[r].hosts.hosts_list \o InfraPairs

OutputDirsExist == root_zd.exists /\ tld_zd.exists

\* "Generate TLD zones and add records for regular hosts", "Add DNS
\* infrastructure with multiple IPs per hostname"
WriteRecords(r) ==
  /\ run[r].pc = "records"
  /\ IF OutputDirsExist
     THEN LET W == AddAllRecords(Writer(r), RecordPairs(r))
          IN /\ WriteBack(W)
             /\ run' = [run EXCEPT ![r] = [@ EXCEPT !.pc = "finish",
                                                    !.created_zones = W.created]]
             /\ post' = post
     ELSE /\ UNCHANGED <<tld_zd, named_conf, root_zd>>
          /\ run' = [run EXCEPT ![r] = Raised(@, "no such directory")]
          /\ post' = [post EXCEPT ![r] = Out]
  /\ UNCHANGED <<in_vars, hosts_named, start, pre, failures, edits, stale>>
  /\ Filed
  /\ UNCHANGED <<store_vars, reply>>

\* "Add delegation NS records", "Add MX records", "Close named.conf", and the
\* successful result
Finish(r) ==
  /\ run[r].pc = "finish"
  /\ IF tld_zd.exists
     THEN LET rn == run[r]
              f1 == ForwardDelegationNS(tld_zd.files, rn.created_zones, rn.fwd)
              f2 == ReverseDelegationNS(f1, rn.created_zones, rn.rev)
              f3 == MxRecords(f2, rn.created_zones, rn.hosts.domain_mx)
          IN /\ tld_zd' = [tld_zd EXCEPT !.files = f3]
             /\ named_conf' = FileAppend(named_conf, << <<"endview", <<>>, <<>> >> >>)
             /\ run' = [run EXCEPT ![r] =
                          [@ EXCEPT !.pc = "done",
                                    !.result =
                                      [returned |-> TRUE, success |-> TRUE,
                                       zones_created |-> Cardinality(rn.created_zones),
                                       hosts_processed |-> rn.hosts_processed,
                                       hosts_skipped |-> rn.hosts.skipped,
                                       warnings |-> rn.hosts.warnings,
                                       errors |-> <<>>]]]
     ELSE /\ UNCHANGED <<tld_zd, named_conf>>
          /\ run' = [run EXCEPT ![r] = Raised(@, "no such directory")]
  /\ post' = [post EXCEPT ![r] = [Out EXCEPT !.tld_zd = tld_zd',
                                             !.named_conf = named_conf']]
  /\ stale' = IF tld_zd.exists THEN [stale EXCEPT !.after = FALSE] ELSE stale
  /\ UNCHANGED <<in_vars, hosts_named, root_zd, start, pre, failures, edits>>
  /\ Filed
  /\ UNCHANGED <<store_vars, reply>>

(***************************************************************************)
(* I/O failures: an operation on the output tree raises (a path that       *)
(* cannot be removed or written) and the run returns through its except    *)
(* clause, leaving what it had removed or written so far.                  *)
(***************************************************************************)
FailClean(r, k) ==
  /\ run[r].pc = "clean"
  /\ failures > 0
  /\ failures' = failures - 1
  /\ CleanUpTo(k)
  /\ run' = [run EXCEPT ![r] = Raised(@, "cannot remove")]
  /\ post' = [post EXCEPT ![r] = Out']
  /\ UNCHANGED <<in_vars, start, pre, edits, stale>>
  /\ Filed
  /\ UNCHANGED <<store_vars, reply>>

\* the hosts collected from the sources before the k-th
CollectedBefore(k, quiet) ==
  LET d == parse_delegations_file(delegations_file)
  IN CollectFrom(NoHosts, SubSeq(ProcessingOrder, 1, k - 1), inv,
                 DictOf(d.forward), DictOf(d.reverse), quiet)

\* An input cannot be read: the delegations file (k = 0, parse_delegations_file
\* raises) or the file of the k-th source (open raises in _add_hosts_to_list;
\* an unreadable virtual host file is passed over by get_vhost_hosts_files).
FailPrepare(r, k) ==
  /\ run[r].pc = "prepare"
  /\ failures > 0
  /\ IF k = 0 THEN delegations_file.exists
     ELSE k > 1 /\ inv[ProcessingOrder[k]].exists
  /\ failures' = failures - 1
  /\ root_zd' = MakeDirs(root_zd)
  /\ tld_zd' = MakeDirs(tld_zd)
  /\ pre' = [pre EXCEPT ![r] = [began |-> TRUE, out |-> Out, inv |-> inv,
                                delegations_file |-> delegations_file]]
  /\ run' = [run EXCEPT ![r] =
               Raised([@ EXCEPT !.hosts = IF k = 0 THEN NoHosts
                                          ELSE CollectedBefore(k, run[r].quiet)],
                      "cannot read")]
  /\ post' = [post EXCEPT ![r] = [Out EXCEPT !.root_zd = root_zd',
                                             !.tld_zd = tld_zd']]
  /\ UNCHANGED <<in_vars, hosts_named, named_conf, start, edits, stale>>
  /\ Filed
  /\ UNCHANGED <<store_vars, reply>>

FailWriteBase(r, k) ==
  /\ run[r].pc = "base"
  /\ failures > 0
  /\ failures' = failures - 1
  /\ BaseUpTo(k)
  /\ run' = [run EXCEPT ![r] = Raised(@, "cannot write")]
  /\ post' = [post EXCEPT ![r] = [Out EXCEPT !.hosts_named = hosts_named',
                                             !.named_conf = named_conf',
                                             !.root_zd = root_zd']]
  /\ UNCHANGED <<in_vars, tld_zd, start, pre, edits, stale>>
  /\ Filed
  /\ UNCHANGED <<store_vars, reply>>

\* where the zone generation loops are cut: before the first pair, after the
\* first, between the inventory hosts and the infrastructure, before the last
FailPoints(r) ==
  {0, 1, Len(run[r].hosts.hosts_list), Len(RecordPairs(r)) - 1}

\* the run raises after the first k pairs of the zone generation loops
FailWriteRecords(r, k) ==
  /\ run[r].pc = "records"
  /\ failures > 0
  /\ OutputDirsExist
  /\ k \in FailPoints(r)
  /\ failures' = failures - 1
  /\ WriteBack(AddAllRecords(Writer(r), SubSeq(RecordPairs(r), 1, k)))
  /\ run' = [run EXCEPT ![r] = Raised(@, "cannot write")]
  /\ post' = [post EXCEPT ![r] = [Out EXCEPT !.tld_zd = tld_zd',
                                             !.named_conf = named_conf',
                                             !.root_zd = root_zd']]
  /\ UNCHANGED <<in_vars, hosts_named, start, pre, edits, stale>>
  /\ Filed
  /\ UNCHANGED <<store_vars, reply>>

(***************************************************************************)
(* Inventory edits: add_custom_dns_entry.                                  *)
(***************************************************************************)
NoInventory == [exists |-> FALSE, lines |-> <<>>]

InventoryOf(ls) == [exists |-> TRUE, lines |-> ls]

\* octets that int() converts although they are not plain digits: it strips
\* the blanks around the digits
PaddedTokens == {" 5"}

\* the digits that int() reads in a token
Stripped(t) == IF t = " 5" THEN "5" ELSE t

\* line.split() on the text of a dotted name: its words, cut at every blank
RECURSIVE Words(_)
Words(x) ==
  LET padded == {i \in DOMAIN x : x[i] \in PaddedTokens}
      i == CHOOSE j \in padded : \A k \in padded : j <= k
  IN IF padded = {} THEN <<x>>
     ELSE (IF i = 1 THEN <<>> ELSE << SubSeq(x, 1, i - 1) \o <<"">> >>)
          \o Words(<<Stripped(x[i])>> \o SubSeq(x, i + 1, Len(x)))

\* the words of the line f"{ip_address} {fqdn}" when it is read back
FormattedEntry(ip_address, fqdn) == Words(ip_address) \o Words(fqdn)

\* a line that starts with '#'
CommentLine == << <<"#">> >>

IsComment(l) == l # <<>> /\ l[1] = <<"#">>

\* the entries read back: blank lines and comments are dropped
ExistingEntries(f) == SelectSeq(f.lines, LAMBDA l : l # <<>> /\ ~IsComment(l))

\* parts[1] == fqdn
IsEntryFor(l, fqdn) == Len(l) >= 2 /\ l[2] = fqdn

\* the file after add_custom_dns_entry(ip_address, fqdn)
WithEntry(f, ip_address, fqdn) ==
  LET existing_entries == ExistingEntries(f)
      hits == {i \in DOMAIN existing_entries : IsEntryFor(existing_entries[i], fqdn)}
      first == CHOOSE i \in hits : \A j \in hits : i <= j
  IN InventoryOf(IF hits # {}
                 THEN [existing_entries EXCEPT
                         ![first] = FormattedEntry(ip_address, fqdn)]
                 ELSE Append(existing_entries, FormattedEntry(ip_address, fqdn)))

\* remove_custom_dns_entry(fqdn) has found a line to remove
Found(f, fqdn) ==
  f.exists /\ \E i \in DOMAIN ExistingEntries(f) : IsEntryFor(ExistingEntries(f)[i], fqdn)

\* the file after remove_custom_dns_entry(fqdn) has found a line
WithoutEntry(f, fqdn) ==
  InventoryOf(SelectSeq(ExistingEntries(f), LAMBDA l : ~IsEntryFor(l, fqdn)))

\* a request without force_overwrite that found the configuration in place
Refused(r) == run[r].pc = "done" /\ ~run[r].force /\ ~pre[r].began

\* the last generation that was not refused has succeeded
LastGenerationSucceeded ==
  \E r \in Runs :
    /\ run[r].pc = "done" /\ run[r].result.success
    /\ \A q \in Runs : q > r => run[q].pc \in {"new", "queued"} \/ Refused(q)

\* an input is saved at a time later than the time of the configuration that
\* the last generation, a successful one, has left
ChangedAfterGeneration ==
  LastGenerationSucceeded /\ named_conf.exists /\ clock > mtime["named_conf"]

\* input f is saved while a run that has read it is writing its output
ChangedDuringGeneration(f) ==
  /\ \E r \in Runs : run[r].pc \in {"base", "records", "finish"}
  /\ IF f = "delegations" THEN delegations_file.exists ELSE SourceIsRead(inv, f)

\* what the caller of an inventory edit gets, and the file the edit found
Replied(op, args, before, raised, returned) ==
  [asked |-> TRUE, op |-> op, args |-> args, before |-> before,
   raised |-> raised, returned |-> returned]

\* the inventory src is written, or left alone, by an edit
Edited(src, written, after) ==
  /\ inv' = IF written THEN [inv EXCEPT ![src] = after] ELSE inv
  /\ mtime' = IF written THEN [mtime EXCEPT ![src] = clock] ELSE mtime
  /\ stale' = IF written
              THEN [stale EXCEPT !.after = @ \/ ChangedAfterGeneration]
              ELSE stale
  /\ clock' = clock
  /\ status' = NoStatus

\* POST /api/dns/custom-hosts, served by the same event loop
AddCustomDnsEntry(ip_address, fqdn) ==
  /\ edits > 0
  /\ \A q \in Runs : ~InProgress(q)
  /\ edits' = edits - 1
  /\ LET valid == _validate_ip(ip_address) /\ _validate_fqdn(fqdn)
     IN /\ Edited("custom", valid, WithEntry(inv["custom"], ip_address, fqdn))
        /\ reply' = Replied("add_custom_dns_entry",
                            [ip_address |-> ip_address, fqdn |-> fqdn],
                            inv["custom"], ~valid, valid)
  /\ UNCHANGED <<delegations_file, out_vars, run, hist_vars, failures>>
  /\ UNCHANGED store_vars

\* DELETE /api/dns/custom-hosts/{fqdn}
RemoveCustomDnsEntry(fqdn) ==
  /\ edits > 0
  /\ \A q \in Runs : ~InProgress(q)
  /\ edits' = edits - 1
  /\ LET found == Found(inv["custom"], fqdn)
     IN /\ Edited("custom", found, WithoutEntry(inv["custom"], fqdn))
        /\ reply' = Replied("remove_custom_dns_entry", [fqdn |-> fqdn],
                            inv["custom"], FALSE, found)
  /\ UNCHANGED <<delegations_file, out_vars, run, hist_vars, failures>>
  /\ UNCHANGED store_vars

\* POST /api/dns/mail-hosts
AddMailHostEntry(ip_address, fqdn) ==
  /\ edits > 0
  /\ \A q \in Runs : ~InProgress(q)
  /\ edits' = edits - 1
  /\ LET valid == _validate_ip(ip_address) /\ _validate_fqdn(fqdn)
     IN /\ Edited("mail", valid, WithEntry(inv["mail"], ip_address, fqdn))
        /\ reply' = Replied("add_mail_host_entry",
                            [ip_address |-> ip_address, fqdn |-> fqdn],
                            inv["mail"], ~valid, valid)
  /\ UNCHANGED <<delegations_file, out_vars, run, hist_vars, failures>>
  /\ UNCHANGED store_vars

\* a carriage return inside a line of the content
CR == <<"\r">>

\* line.split(): a carriage return is white space between two words
Parts(line) == SelectSeq(line, LAMBDA w : w # CR)

\* the lines that the readers of a file find in one line of the content: text
\* mode ends a line at a carriage return as well
RECURSIVE SplitAtCR(_)
SplitAtCR(line) ==
  LET at == {i \in DOMAIN line : line[i] = CR}
      i == CHOOSE j \in at : \A k \in at : j <= k
  IN IF at = {} THEN <<line>>
     ELSE <<SubSeq(line, 1, i - 1)>> \o SplitAtCR(SubSeq(line, i + 1, Len(line)))

\* the lines of the file that holds the content
RECURSIVE FileLines(_)
FileLines(content) ==
  IF content = <<>> THEN <<>>
  ELSE SplitAtCR(Head(content)) \o FileLines(Tail(content))

\* update_hosts_file accepts the content: every line that is neither blank nor
\* a comment has two words or more, a valid address and a valid name
ValidContent(content) ==
  \A i \in DOMAIN content :
    LET parts == Parts(content[i])
    IN (parts # <<>> /\ ~IsComment(parts)) =>
         /\ Len(parts) >= 2
         /\ _validate_ip(parts[1])
         /\ _validate_fqdn(parts[2])

\* the files that PUT /api/dns/hosts/{file_type} can name
FileTypes == {"mail", "backbone", "vhost"}

\* PUT /api/dns/hosts/{file_type}: a virtual host that has no hosts file is not
\* found, any other target is written when the whole content is valid
UpdateHostsFile(file_type, content) ==
  /\ edits > 0
  /\ \A q \in Runs : ~InProgress(q)
  /\ edits' = edits - 1
  /\ LET known == file_type \in {"mail", "backbone"} \/ inv[file_type].exists
         valid == known /\ ValidContent(content)
     IN /\ Edited(file_type, valid, InventoryOf(FileLines(content)))
        /\ reply' = Replied("update_hosts_file",
                            [file_type |-> file_type, content |-> content],
                            inv[file_type], ~valid, valid)
  /\ UNCHANGED <<delegations_file, out_vars, run, hist_vars, failures>>
  /\ UNCHANGED store_vars

(***************************************************************************)
(* The status request: get_status and _check_needs_regeneration.           *)
(***************************************************************************)
\* sum(1 for line in f if line.strip() and not line.strip().startswith('#'))
CountLines(f) == IF f.exists THEN Len(SelectSeq(f.lines, LAMBDA l : l # <<>>)) ELSE 0

\* the .zone files of rootsrv and tldsrv
ZoneCount ==
  (IF root_zd.exists THEN Cardinality(DOMAIN root_zd.files) ELSE 0)
    + (IF tld_zd.exists THEN Cardinality(DOMAIN tld_zd.files) ELSE 0)

NewerOrSame(t, than) == t >= than

\* os.path.getmtime(path) > named_conf_mtime
Newer(t, than) == t > than

\* the files _check_needs_regeneration looks at: the virtual host files that
\* get_vhost_hosts_files lists, and the other inputs that exist
Compared ==
  {src \in Sources : SourceIsRead(inv, src)}
    \cup (IF delegations_file.exists THEN {"delegations"} ELSE {})

_check_needs_regeneration ==
  IF ~named_conf.exists THEN FALSE
  ELSE \E f \in Compared : Newer(mtime[f], mtime["named_conf"])

get_status ==
  [asked |-> TRUE,
   configured |-> named_conf.exists,
   zone_count |-> ZoneCount,
   web_hosts_count |-> IF inv["vhost"].exists
                       THEN Len(ValidEntries(inv["vhost"].lines)) ELSE 0,
   mail_hosts_count |-> CountLines(inv["mail"]),
   backbone_hosts_count |-> CountLines(inv["backbone"]),
   needs_regeneration |-> _check_needs_regeneration]

\* GET /api/dns/status, served by the same event loop
GetStatus ==
  /\ \A q \in Runs : ~InProgress(q)
  /\ status # get_status
  /\ status' = get_status
  /\ UNCHANGED <<in_vars, out_vars, run, hist_vars, failures, edits, time_vars, stale>>
  /\ UNCHANGED <<store_vars, reply>>

(***************************************************************************)
(* The filesystem outside the service: time passes, and another process    *)
(* (an operator, the site scraper) saves an input file again.              *)
(***************************************************************************)
InputFiles == Sources \cup {"delegations"}

InputExists(f) == IF f = "delegations" THEN delegations_file.exists ELSE inv[f].exists

Tick ==
  /\ clock < MaxClock
  /\ clock' = clock + 1
  /\ UNCHANGED <<in_vars, out_vars, run, hist_vars, failures, edits, mtime, status, stale>>
  /\ UNCHANGED <<store_vars, reply>>

\* a save that leaves the content as it was: only the time of the file changes
Touch(f) ==
  /\ edits > 0
  /\ InputExists(f)
  /\ edits' = edits - 1
  /\ mtime' = [mtime EXCEPT ![f] = clock]
  /\ stale' = [after |-> stale.after \/ ChangedAfterGeneration,
               during |-> stale.during \/ ChangedDuringGeneration(f)]
  /\ status' = NoStatus
  /\ UNCHANGED <<in_vars, out_vars, run, hist_vars, failures, clock>>
  /\ UNCHANGED <<store_vars, reply>>

(***************************************************************************)
(* The inputs of the model.                                                *)
(***************************************************************************)
Ip(a, b, c, d) == <<a, b, c, d>>

ShopBiz == <<"shop", "biz">>

MailBiz == <<"mail", "biz">>

Ns1Ext == <<"ns1", "ext", "net">>

Ns2Ext == <<"ns2", "ext", "net">>

Ns1Corp == <<"ns1", "corp", "com">>

LineUniverse ==
  << <<Ip("10", "0", "0", "5"), ShopBiz>>,
     <<Ip("10", "0", "1", "7"), ShopBiz>>,
     <<Ip("10", "0", "1", "9"), MailBiz>>,
     <<Ip("999", "0", "0", "1"), <<"www", "corp", "com">> >>,
     <<Ip("10", "0", "0", "5"), <<"bad_host", "biz">> >>,
     <<Ip("10", "0", "0", "6")>>,
     <<Ip("10", "0", "0", "9"), MailBiz>>,
     <<Ip("10", "0", "0", "5"), <<"shop", "10">> >> >>

DelegationFiles ==
  { NoDelegations,
    [exists |-> TRUE,
     forward |-> << <<ShopBiz, <<Ns1Ext>> >> >>,
     reverse |-> << << <<"10", "0", "1">>, <<Ns1Ext>> >> >>,
     nameservers |-> << <<Ns1Ext, Ip("10", "0", "2", "1")>> >>],
    [exists |-> TRUE,
     forward |-> << << <<"">>, <<Ns1Ext>> >> >>,
     reverse |-> << << <<"10", "0", "1">>, <<Ns1Ext, Ns2Ext>> >> >>,
     nameservers |-> <<>>],
    [exists |-> TRUE,
     forward |-> << << <<"corp", "com">>, <<Ns1Corp>> >> >>,
     reverse |-> <<>>,
     nameservers |-> << <<Ns1Corp, Ip("10", "0", "2", "1")>> >>],
    [exists |-> TRUE,
     forward |-> <<>>,
     reverse |-> <<>>,
     nameservers |-> << <<ShopBiz, Ip("10", "0", "0", "77")>> >>] }

\* the top-level domain biz delegated as a whole to ns1.ext
BizDelegated ==
  [exists |-> TRUE,
   forward |-> << << <<"biz">>, << <<"ns1", "ext">> >> >> >>,
   reverse |-> <<>>,
   nameservers |-> <<>>]

\* a placement puts a line of the universe into the file of a source
Placements == (1..Len(ProcessingOrder)) \X (1..Len(LineUniverse))

RECURSIVE SeqsUpTo(_, _)
SeqsUpTo(S, n) ==
  IF n = 0 THEN {<<>>}
  ELSE LET shorter == SeqsUpTo(S, n - 1)
       IN shorter \cup {Append(q, x) : q \in {t \in shorter : Len(t) = n - 1}, x \in S}

\* placements in file order: at most MaxLines lines over all the files
PlacementLists ==
  {ps \in SeqsUpTo(Placements, MaxLines) :
     \A i \in 1..(Len(ps) - 1) : ps[i][1] <= ps[i + 1][1]}

InventoriesOf(ps) ==
  [src \in Sources |->
     LET n == CHOOSE i \in DOMAIN ProcessingOrder : ProcessingOrder[i] = src
         mine == SelectSeq(ps, LAMBDA p : p[1] = n)
     IN IF mine = <<>> THEN NoInventory
        ELSE InventoryOf([i \in DOMAIN mine |-> LineUniverse[mine[i][2]]])]

InitOutputs ==
  /\ hosts_named = NoFile
  /\ named_conf = NoFile
  /\ root_zd = NoDir
  /\ tld_zd = NoDir
  /\ start = [r \in Runs |-> NoOut]
  /\ pre = [r \in Runs |-> NoPre]
  /\ post = [r \in Runs |-> NoOut]

\* no delegations were put or read through the API, no inventory was edited
NoReply == [asked |-> FALSE, raised |-> FALSE, returned |-> FALSE]

InitStore ==
  /\ delegations_text = NoFile
  /\ delegations_read = [asked |-> FALSE]
  /\ round_trips = <<>>
  /\ reply = NoReply

\* every file is as old as the start of the clock, no status was asked for
InitTimes ==
  /\ clock = 0
  /\ mtime = [f \in InputFiles \cup {"named_conf"} |-> 0]
  /\ status = NoStatus
  /\ stale = [after |-> FALSE, during |-> FALSE]

CustomEntries ==
  { <<Ip("10", "0", "0", "8"), ShopBiz>>,
    <<Ip("10", "0", "0", "256"), MailBiz>> }

\* the service starts on inventories without or with a delegated network
Init ==
  /\ \/ /\ inv = InventoriesOf(<< <<1, 1>>, <<5, 3>> >>)
        /\ delegations_file = NoDelegations
     \/ /\ inv = InventoriesOf(<< <<1, 1>>, <<2, 2>> >>)
        /\ delegations_file \in {d \in DelegationFiles :
                                   d.exists /\ d.nameservers = <<>>}
  /\ InitOutputs
  /\ run = [r \in Runs |-> NewRun]
  /\ failures = MaxFailures
  /\ edits = MaxEdits
  /\ InitTimes
  /\ InitStore

Next ==
  \/ \E r \in Runs, force \in BOOLEAN, quiet \in BOOLEAN : Request(r, force, quiet)
  \/ \E r \in Runs : Dispatch(r)
  \/ \E r \in Runs : Clean(r)
  \/ \E r \in Runs : Prepare(r)
  \/ \E r \in Runs : WriteBase(r)
  \/ \E r \in Runs : WriteRecords(r)
  \/ \E r \in Runs : Finish(r)
  \/ \E r \in Runs, k \in 0..3 : FailClean(r, k)
  \/ \E r \in Runs, k \in 0..Len(ProcessingOrder) : FailPrepare(r, k)
  \/ \E r \in Runs, k \in 0..2 : FailWriteBase(r, k)
  \/ \E r \in Runs : \E k \in FailPoints(r) : FailWriteRecords(r, k)
  \/ \E e \in CustomEntries : AddCustomDnsEntry(e[1], e[2])

Spec == Init /\ [][Next]_vars

(***************************************************************************)
(* One generation on an empty output tree, over every choice of            *)
(* inventories and delegations within the bounds.                          *)
(***************************************************************************)
InitGen ==
  /\ \E ps \in PlacementLists : inv = InventoriesOf(ps)
  /\ delegations_file \in DelegationFiles \cup {BizDelegated}
  /\ InitOutputs
  /\ \E quiet \in BOOLEAN :
       run = [r \in Runs |->
                IF r = 1 THEN [NewRun EXCEPT !.pc = "queued", !.quiet = quiet]
                ELSE NewRun]
  /\ failures = 0
  /\ edits = 0
  /\ InitTimes
  /\ InitStore

NextGen ==
  \/ \E r \in Runs : Dispatch(r)
  \/ \E r \in Runs : Prepare(r)
  \/ \E r \in Runs : WriteBase(r)
  \/ \E r \in Runs : WriteRecords(r)
  \/ \E r \in Runs : Finish(r)

SpecGen == InitGen /\ [][NextGen]_vars

(***************************************************************************)
(* The service with its status request, on a filesystem where time passes  *)
(* and the input files are saved again by others.                          *)
(***************************************************************************)
InitStatus ==
  /\ inv = InventoriesOf(<< <<1, 1>>, <<5, 3>> >>)
  /\ delegations_file \in {d \in DelegationFiles :
                             d.exists /\ d.reverse = <<>> /\ d.forward # <<>>}
  /\ InitOutputs
  /\ run = [r \in Runs |-> NewRun]
  /\ failures = MaxFailures
  /\ edits = MaxEdits
  /\ InitTimes
  /\ InitStore

NextStatus ==
  \/ \E r \in Runs, force \in BOOLEAN : Request(r, force, FALSE)
  \/ \E r \in Runs : Dispatch(r)
  \/ \E r \in Runs : Clean(r)
  \/ \E r \in Runs : Prepare(r)
  \/ \E r \in Runs : WriteBase(r)
  \/ \E r \in Runs : WriteRecords(r)
  \/ \E r \in Runs : Finish(r)
  \/ \E r \in Runs, k \in 0..3 : FailClean(r, k)
  \/ \E r \in Runs, k \in 0..Len(ProcessingOrder) : FailPrepare(r, k)
  \/ \E r \in Runs, k \in 0..2 : FailWriteBase(r, k)
  \/ \E r \in Runs : \E k \in FailPoints(r) : FailWriteRecords(r, k)
  \/ \E e \in CustomEntries : AddCustomDnsEntry(e[1], e[2])
  \/ \E f \in InputFiles : Touch(f)
  \/ Tick
  \/ GetStatus

SpecStatus == InitStatus /\ [][NextStatus]_vars

(***************************************************************************)
(* The service on an inventory from which a custom entry, the only host of *)
(* its top-level domain, can be removed between generations.               *)
(***************************************************************************)
IntraLan == <<"intra", "lan">>

InitRegen ==
  /\ inv = [InventoriesOf(<< <<1, 1>> >>) EXCEPT
              !["custom"] = InventoryOf(<< <<Ip("10", "0", "0", "8"), IntraLan>> >>)]
  /\ delegations_file = NoDelegations
  /\ InitOutputs
  /\ run = [r \in Runs |-> NewRun]
  /\ failures = MaxFailures
  /\ edits = MaxEdits
  /\ InitTimes
  /\ InitStore

NextRegen ==
  \/ \E r \in Runs, force \in BOOLEAN : Request(r, force, FALSE)
  \/ \E r \in Runs : Dispatch(r)
  \/ \E r \in Runs : Clean(r)
  \/ \E r \in Runs : Prepare(r)
  \/ \E r \in Runs : WriteBase(r)
  \/ \E r \in Runs : WriteRecords(r)
  \/ \E r \in Runs : Finish(r)
  \/ \E r \in Runs, k \in 0..3 : FailClean(r, k)
  \/ \E fqdn \in {IntraLan, ShopBiz} : RemoveCustomDnsEntry(fqdn)
  \/ GetStatus

SpecRegen == InitRegen /\ [][NextRegen]_vars

(***************************************************************************)
(* The custom inventory under sequences of add_custom_dns_entry and        *)
(* remove_custom_dns_entry, from an absent or an empty file.               *)
(***************************************************************************)
EditIps ==
  {Ip("10", "0", "0", "8"), Ip("10", "0", "0", " 5"), Ip("10", "0", "0", "256")}

EditFqdns == {ShopBiz, MailBiz, <<"bad_host", "biz">>}

NoInventories == [src \in Sources |-> NoInventory]

InitCustom ==
  /\ inv \in {NoInventories, [NoInventories EXCEPT !["custom"] = InventoryOf(<<>>)]}
  /\ delegations_file = NoDelegations
  /\ InitOutputs
  /\ run = [r \in Runs |-> NewRun]
  /\ failures = 0
  /\ edits = MaxCalls
  /\ InitTimes
  /\ InitStore

NextCustom ==
  \/ \E ip_address \in EditIps, fqdn \in EditFqdns :
       AddCustomDnsEntry(ip_address, fqdn)
  \/ \E fqdn \in EditFqdns : RemoveCustomDnsEntry(fqdn)

SpecCustom == InitCustom /\ [][NextCustom]_vars

(***************************************************************************)
(* The inventories under the edits that validate their input: the two      *)
(* single-entry additions and the replacement of a whole hosts file.       *)
(***************************************************************************)
ContentLines ==
  { <<Ip("10", "0", "0", "8"), ShopBiz>>,
    CommentLine,
    <<Ip("10", "0", "0", "6")>>,
    <<Ip("10", "0", "0", "256"), MailBiz>>,
    <<Ip("10", "0", "0", "5"), <<"bad_host", "biz">> >>,
    <<Ip("10", "0", "0", "8"), ShopBiz, CR, Ip("10", "0", "0", "256"), MailBiz>> }

Contents == SeqsUpTo(ContentLines, MaxLines)

InitEdits ==
  /\ inv \in {NoInventories,
              [NoInventories EXCEPT
                 !["vhost"] = InventoryOf(<< <<Ip("10", "0", "0", "5"), ShopBiz>> >>),
                 !["mail"] = InventoryOf(<< <<Ip("10", "0", "1", "9"), MailBiz>> >>)]}
  /\ delegations_file = NoDelegations
  /\ InitOutputs
  /\ run = [r \in Runs |-> NewRun]
  /\ failures = 0
  /\ edits = MaxUpdates
  /\ InitTimes
  /\ InitStore

NextEdits ==
  \/ \E ip_address \in EditIps, fqdn \in EditFqdns :
       AddCustomDnsEntry(ip_address, fqdn)
  \/ \E ip_address \in EditIps, fqdn \in EditFqdns :
       AddMailHostEntry(ip_address, fqdn)
  \/ \E file_type \in FileTypes, content \in Contents :
       UpdateHostsFile(file_type, content)

SpecEdits == InitEdits /\ [][NextEdits]_vars

(***************************************************************************)
(* One status request, over the input files that exist and their times.    *)
(***************************************************************************)
InitNeeds ==
  /\ \E ps \in {q \in PlacementLists : Len(q) <= 1} : inv = InventoriesOf(ps)
  /\ delegations_file \in {d \in DelegationFiles : d.nameservers = <<>>}
  /\ hosts_named = NoFile
  /\ named_conf \in {NoFile, FileOf(NamedConfPreamble)}
  /\ root_zd = NoDir
  /\ tld_zd = NoDir
  /\ start = [r \in Runs |-> NoOut]
  /\ pre = [r \in Runs |-> NoPre]
  /\ post = [r \in Runs |-> NoOut]
  /\ run = [r \in Runs |-> NewRun]
  /\ failures = 0
  /\ edits = 0
  /\ clock = MaxClock
  /\ mtime \in {m \in [InputFiles \cup {"named_conf"} -> 0..MaxClock] :
                  /\ \A f \in InputFiles : ~InputExists(f) => m[f] = 0
                  /\ ~named_conf.exists => m["named_conf"] = 0}
  /\ status = NoStatus
  /\ stale = [after |-> FALSE, during |-> FALSE]
  /\ InitStore

NextNeeds == GetStatus

SpecNeeds == InitNeeds /\ [][NextNeeds]_vars

(***************************************************************************)
(* What the claims speak of.                                               *)
(***************************************************************************)
Succeeded(r) == run[r].pc = "done" /\ run[r].result.success

\* the order of the sources as the claims state it
StatedOrder == <<"vhost", "backbone", "custom", "extra", "mail">>

\* the lines generation reads, in the stated order, as <<source index, line>>
LinesRead ==
  Flatten([i \in DOMAIN StatedOrder |->
             LET f == inv[StatedOrder[i]]
             IN IF SourceIsRead(inv, StatedOrder[i])
                THEN [j \in DOMAIN f.lines |-> <<i, f.lines[j]>>]
                ELSE <<>>])

\* a line with an address token and a name of at least two non-empty last labels
Tokenized(l) ==
  /\ Len(l) >= 2
  /\ Len(l[2]) >= 2
  /\ l[2][Len(l[2])] # ""
  /\ l[2][Len(l[2]) - 1] # ""

WellFormed(l) == Len(l) >= 2 /\ _validate_ip(l[1]) /\ _validate_fqdn(l[2])

Parsed == parse_delegations_file(delegations_file)

FwdKeys == {e[1] : e \in Range(Parsed.forward)}

RevKeys == {e[1] : e \in Range(Parsed.reverse)}

NsPairs == Range(Parsed.nameservers)

DomainOf(fqdn) == <<fqdn[Len(fqdn) - 1], fqdn[Len(fqdn)]>>

InDelegatedDomain(fqdn) == Len(fqdn) >= 2 /\ DomainOf(fqdn) \in FwdKeys

InDelegatedNetwork(ip) == Len(ip) >= 3 /\ SubSeq(ip, 1, 3) \in RevKeys

MatchesDelegation(l) == InDelegatedDomain(l[2]) \/ InDelegatedNetwork(l[1])

ZoneLines(key) == IF key \in DOMAIN tld_zd.files THEN Range(tld_zd.files[key]) ELSE {}

HasA(fqdn, ip) ==
  Len(fqdn) >= 2 /\ <<WithoutTld(fqdn), "A", ip>> \in ZoneLines(fqdn[Len(fqdn)])

HasPTR(fqdn, ip) ==
  Len(ip) = 4 /\ << <<ip[4], ip[3], ip[2]>>, "PTR", Dot(fqdn) >> \in ZoneLines(ip[1])

\* the lines that define fqdn, as indices of LinesRead
Defining(fqdn) == {i \in DOMAIN LinesRead : Tokenized(LinesRead[i][2]) /\ LinesRead[i][2][2] = fqdn}

Accepting(fqdn) == {i \in Defining(fqdn) : ~MatchesDelegation(LinesRead[i][2])}

Last(I) == CHOOSE i \in I : \A j \in I : j <= i

NamesRead == {LinesRead[i][2][2] : i \in {j \in DOMAIN LinesRead : Tokenized(LinesRead[j][2])}}

\* fqdn has two of the given lines in different sources with different addresses
InTwoSources(fqdn, I) ==
  \E i, j \in I : /\ LinesRead[i][1] # LinesRead[j][1]
                  /\ LinesRead[i][2][1] # LinesRead[j][2][1]

(***************************************************************************)
(* The claims on the life cycle of the service.                            *)
(***************************************************************************)
TakenUp(r) == run[r].pc \notin {"new", "queued"}

\* C1: a request without force_overwrite that finds the server configuration
\* in place is refused at once: it never enters a phase of generation, its
\* result is success=false with exactly one error and all counts zero, and
\* the output tree at its return is the output tree it found.
C1_RefusesExistingOutput ==
  \A r \in Runs :
    (TakenUp(r) /\ ~run[r].force /\ start[r].named_conf.exists) =>
      /\ run[r].pc = "done"
      /\ ~pre[r].began
      /\ run[r].result.returned
      /\ ~run[r].result.success
      /\ Len(run[r].result.errors) = 1
      /\ run[r].result.zones_created = 0
      /\ run[r].result.hosts_processed = 0
      /\ run[r].result.hosts_skipped = 0
      /\ post[r] = start[r]
      /\ Out = start[r] \/ \E q \in Runs : q > r /\ TakenUp(q)

\* a request was refused on a generated tree that holds zone files
C1_Witness ==
  \E r \in Runs :
    /\ run[r].pc = "done"
    /\ ~run[r].force
    /\ start[r].named_conf.exists
    /\ start[r].tld_zd.files # EmptyFiles
    /\ Len(run[r].result.errors) = 1

C4_NeverAppendsToOldFile ==
  \A r \in Runs :
    (run[r].pc = "finish" \/ Succeeded(r)) =>
      \A key \in run[r].created_zones : key \notin DOMAIN pre[r].out.tld_zd.files

\* C8: two successful runs with force_overwrite that read the same inventories
\* and delegations leave the same output tree and return the same counts.
C8_ForcedRerunIsIdempotent ==
  \A r, q \in Runs :
    ( /\ r < q
      /\ Succeeded(r) /\ Succeeded(q)
      /\ run[r].force /\ run[q].force
      /\ pre[r].inv = pre[q].inv
      /\ pre[r].delegations_file = pre[q].delegations_file ) =>
        /\ post[q] = post[r]
        /\ run[q].result.zones_created = run[r].result.zones_created
        /\ run[q].result.hosts_processed = run[r].result.hosts_processed
        /\ run[q].result.hosts_skipped = run[r].result.hosts_skipped

\* two forced runs in a row succeeded on the same inputs, the second on the
\* zone files the first had left
C8_Witness ==
  \E r \in Runs :
    /\ r + 1 \in Runs
    /\ Succeeded(r) /\ Succeeded(r + 1)
    /\ run[r].force /\ run[r + 1].force
    /\ pre[r].inv = pre[r + 1].inv
    /\ pre[r].delegations_file = pre[r + 1].delegations_file
    /\ start[r + 1] = post[r]
    /\ post[r].tld_zd.files # EmptyFiles

(***************************************************************************)
(* The claims on one generation, over all inventories and delegations.     *)
(***************************************************************************)
\* every host generation knows of: inventory lines, nameserver-IP pairs,
\* infrastructure
HostsKnown ==
  {<<LinesRead[i][2][2], LinesRead[i][2][1]>> :
     i \in {j \in DOMAIN LinesRead : Tokenized(LinesRead[j][2])}}
    \cup NsPairs \cup Range(InfraPairs)

NsTargets(key, owner) ==
  IF key \in DOMAIN tld_zd.files
  THEN SelectSeq(tld_zd.files[key], LAMBDA l : l[1] = owner /\ l[2] = "NS")
  ELSE <<>>

\* the NS records a delegation's zone holds under the delegation's owner name
\* are the delegation's nameserver list, in its order
DelegationsHaveTheirNS ==
  /\ \A e \in Range(Parsed.forward) :
       (Len(e[1]) = 2 /\ e[1][2] \in DOMAIN tld_zd.files) =>
         NsTargets(e[1][2], WithoutTld(e[1]))
           = [i \in DOMAIN e[2] |-> <<WithoutTld(e[1]), "NS", Dot(e[2][i])>>]
  /\ \A e \in Range(Parsed.reverse) :
       (Len(e[1]) = 3 /\ e[1][1] \in DOMAIN tld_zd.files) =>
         NsTargets(e[1][1], <<e[1][3], e[1][2]>>)
           = [i \in DOMAIN e[2] |-> << <<e[1][3], e[1][2]>>, "NS", Dot(e[2][i]) >>]

TldsReferenced ==
  {h[1][Len(h[1])] : h \in {g \in HostsKnown : Len(g[1]) >= 2}}
    \cup {k[Len(k)] : k \in {j \in FwdKeys : Len(j) >= 2}}

OctetsReferenced ==
  {h[2][1] : h \in {g \in HostsKnown : Len(g[2]) = 4}} \cup {k[1] : k \in RevKeys}

\* C5: after a successful generation every top-level label and every first
\* octet referred to by an accepted host, a skipped host or a delegation
\* entry has its zone file.
C5_EveryReferencedKeyHasItsZone ==
  Succeeded(1) =>
    /\ \A tld \in TldsReferenced : tld \in DOMAIN tld_zd.files
    /\ \A ip1 \in OctetsReferenced : ip1 \in DOMAIN tld_zd.files

\* C6 as stated: a name that two sources define with different addresses has
\* the A and PTR records of its last definition, and no record with the
\* address of another definition.
C6_LastSourceWins ==
  Succeeded(1) =>
    \A fqdn \in NamesRead :
      InTwoSources(fqdn, Defining(fqdn)) =>
        LET ip == LinesRead[Last(Defining(fqdn))][2][1]
        IN /\ HasA(fqdn, ip)
           /\ Len(ip) = 4 => HasPTR(fqdn, ip)
           /\ \A i \in Defining(fqdn) :
                LinesRead[i][2][1] # ip =>
                  ~HasA(fqdn, LinesRead[i][2][1]) /\ ~HasPTR(fqdn, LinesRead[i][2][1])

\* C6 as amended: the same of the definitions that were accepted (not skipped
\* for a delegation), for a name that is no delegation nameserver, and but
\* for the addresses the infrastructure tiers give the name.
C6_LastAcceptedSourceWins ==
  Succeeded(1) =>
    \A fqdn \in NamesRead :
      (InTwoSources(fqdn, Accepting(fqdn)) /\ fqdn \notin {n[1] : n \in NsPairs}) =>
        LET ip == LinesRead[Last(Accepting(fqdn))][2][1]
        IN /\ HasA(fqdn, ip)
           /\ Len(ip) = 4 => HasPTR(fqdn, ip)
           /\ \A i \in Defining(fqdn) :
                (LinesRead[i][2][1] # ip
                   /\ <<fqdn, LinesRead[i][2][1]>> \notin Range(InfraPairs)) =>
                  ~HasA(fqdn, LinesRead[i][2][1]) /\ ~HasPTR(fqdn, LinesRead[i][2][1])

\* a generation succeeded on a name accepted from two sources with two addresses
C6_Witness ==
  /\ Succeeded(1)
  /\ \E fqdn \in NamesRead :
       /\ InTwoSources(fqdn, Accepting(fqdn))
       /\ fqdn \notin {n[1] : n \in NsPairs}
       /\ HasA(fqdn, LinesRead[Last(Accepting(fqdn))][2][1])

\* C7: when an accepted line replaces the address of a name in the host
\* table, a run that is not quiet returns a warning about that name.
C7_ConflictIsWarned ==
  (Succeeded(1) /\ ~run[1].quiet) =>
    \A fqdn \in NamesRead :
      (\E i, j \in Accepting(fqdn) : LinesRead[i][2][1] # LinesRead[j][2][1]) =>
        \E w \in Range(run[1].result.warnings) :
          w[1] \notin {"skip_fwd", "skip_rev"} /\ w[2] = fqdn

\* C9: a line whose address or name fails validation leaves no trace: no
\* host table entry, no A or PTR record, no warning, no skip count.
C9_MalformedLinesLeaveNoTrace ==
  Succeeded(1) =>
    /\ \A i \in DOMAIN LinesRead :
         LET l == LinesRead[i][2]
         IN (Len(l) >= 2 /\ ~WellFormed(l)) =>
              /\ <<l[2], l[1]>> \notin Range(run[1].hosts.hosts_list)
              /\ ~HasA(l[2], l[1])
              /\ ~HasPTR(l[2], l[1])
              /\ \A w \in Range(run[1].result.warnings) : w[2] # l[2]
    /\ run[1].result.hosts_skipped
         = Cardinality({i \in DOMAIN LinesRead :
                          WellFormed(LinesRead[i][2]) /\ MatchesDelegation(LinesRead[i][2])})

\* C10: the lines skipped are the lines whose two-label domain is a forward
\* key or whose first three octets are a reverse key; each counts once and
\* puts nothing in the host table; every other well-formed line is in it.
C10_SkipsExactlyTheDelegated ==
  run[1].pc \in {"base", "records", "finish", "done"} =>
    LET skipped == {i \in DOMAIN LinesRead :
                      Tokenized(LinesRead[i][2]) /\ MatchesDelegation(LinesRead[i][2])}
        kept == {i \in DOMAIN LinesRead :
                   Tokenized(LinesRead[i][2]) /\ ~MatchesDelegation(LinesRead[i][2])}
        table == Range(run[1].hosts.hosts_list)
    IN /\ run[1].hosts.skipped = Cardinality(skipped)
       /\ Succeeded(1) => run[1].result.hosts_skipped = Cardinality(skipped)
       /\ \A h \in table :
            h \in NsPairs \/ \E i \in kept : h = <<LinesRead[i][2][2], LinesRead[i][2][1]>>
       /\ \A i \in kept :
            WellFormed(LinesRead[i][2]) =>
              \E h \in table : h[1] = LinesRead[i][2][2]

\* a generation skipped a line that matches a forward and a reverse
\* delegation, counted it once, and kept another line
C10_Witness ==
  /\ Succeeded(1)
  /\ run[1].result.hosts_skipped = 1
  /\ \E i \in DOMAIN LinesRead :
       /\ Tokenized(LinesRead[i][2])
       /\ InDelegatedDomain(LinesRead[i][2][2])
       /\ InDelegatedNetwork(LinesRead[i][2][1])
  /\ \E h \in Range(run[1].hosts.hosts_list) : h \notin NsPairs

(***************************************************************************)
(* The claims on the status request.                                       *)
(***************************************************************************)
\* C11: once an input file was saved at a time later than the configuration
\* of a successful generation, every status response says
\* needs_regeneration until a generation succeeds again; and after a
\* successful generation with no such save since, the response says it is
\* not needed.
C11_StaleUntilRegenerated ==
  status.asked =>
    /\ stale.after => status.needs_regeneration
    /\ (LastGenerationSucceeded /\ ~stale.after) => ~status.needs_regeneration

\* the inputs a generation reads
Contributing ==
  {f \in InputFiles :
     /\ InputExists(f)
     /\ f = "vhost" => ValidEntries(inv["vhost"].lines) # <<>>}

C13_NoMissedRegeneration ==
  (status.asked /\ LastGenerationSucceeded /\ stale.during) =>
    status.needs_regeneration

(***************************************************************************)
(* The claims on the files a run writes.                                   *)
(***************************************************************************)
\* the output tree of run r: the one it returned with, or the present one
TreeOf(r) == IF run[r].pc = "done" THEN post[r] ELSE Out

\* lines begin with head
BeginsWith(lines, head) ==
  Len(lines) >= Len(head) /\ SubSeq(lines, 1, Len(head)) = head

HeaderCount(lines) == Cardinality({i \in DOMAIN lines : lines[i][2] = "SOA"})

\* what run r has added to the zone file of key
WrittenBy(r, key) ==
  LET now == TreeOf(r).tld_zd.files[key]
      before == IF key \in DOMAIN pre[r].out.tld_zd.files
                THEN pre[r].out.tld_zd.files[key] ELSE <<>>
  IN SubSeq(now, Len(before) + 1, Len(now))

\* C14: what a run writes to the zone file of a key it refers to begins with
\* the zone header and holds the header once, and the zone file as a whole
\* begins with the header and holds it once.
C14_HeaderOncePerRun ==
  \A r \in Runs :
    (run[r].pc = "finish" \/ Succeeded(r)) =>
      \A key \in run[r].created_zones :
        /\ BeginsWith(WrittenBy(r, key), TldZoneHeader)
        /\ HeaderCount(WrittenBy(r, key)) = 1
        /\ BeginsWith(TreeOf(r).tld_zd.files[key], TldZoneHeader)
        /\ HeaderCount(TreeOf(r).tld_zd.files[key]) = 1

\* the zone files that hold the A record of a host (not the glue of the header)
TldsWithHosts(files) ==
  {key \in DOMAIN files :
     \E i \in DOMAIN files[key] :
       /\ files[key][i][2] = "A"
       /\ files[key][i][1][Len(files[key][i][1])] # ""}

\* C15: after a successful run the root zone is its header followed by the NS
\* delegations of the top-level domains that hold a host record, each once
\* with one NS line for every TLD-authority name, and nothing else.
C15_RootDelegatesEveryTldOnce ==
  \A r \in Runs :
    Succeeded(r) =>
      LET root == post[r].root_zd.files["root"]
          tlds == TldsWithHosts(post[r].tld_zd.files)
      IN /\ BeginsWith(root, RootZoneHeader)
         /\ Len(root) = Len(RootZoneHeader) + Len(TOPLEVEL_NS) * Cardinality(tlds)
         /\ \A tld \in tlds :
              SelectSeq(root, LAMBDA l : l[1] = <<tld, "">>)
                = [i \in DOMAIN TOPLEVEL_NS |-> << <<tld, "">>, "NS", TOPLEVEL_NS[i][1] >>]

\* the keys of a sequence in the order of their first occurrence
FirstOccurrences(keys) ==
  LET firsts == {i \in DOMAIN keys : \A j \in 1..(i - 1) : keys[j] # keys[i]}
  IN [n \in 1..Cardinality(firsts) |->
        keys[CHOOSE i \in firsts : Cardinality({j \in firsts : j <= i}) = n]]

\* the zone keys run r refers to, in the order of the first reference
ReferenceOrder(r) ==
  FirstOccurrences(Flatten([i \in DOMAIN RecordPairs(r) |->
    LET fqdn == RecordPairs(r)[i][1]
        ip == RecordPairs(r)[i][2]
    IN IF Len(fqdn) < 2 \/ fqdn[Len(fqdn)] = "" THEN <<>>
       ELSE IF Len(ip) = 4 THEN <<fqdn[Len(fqdn)], ip[1]>>
       ELSE <<fqdn[Len(fqdn)]>>]))

\* C16: after a successful run named.conf is its preamble, then one zone
\* stanza for every zone file in the order in which the run first referred
\* to the zones, then the closing line of the view; no zone file is
\* without its stanza.
C16_OneStanzaPerZoneInOrder ==
  \A r \in Runs :
    Succeeded(r) =>
      LET conf == post[r].named_conf.content
          n == Len(NamedConfPreamble)
          stanzas == SubSeq(conf, n + 1, Len(conf) - 1)
      IN /\ BeginsWith(conf, NamedConfPreamble)
         /\ Len(conf) > n
         /\ conf[Len(conf)] = <<"endview", <<>>, <<>> >>
         /\ \A i \in DOMAIN stanzas : stanzas[i][1] = "zone"
         /\ [i \in DOMAIN stanzas |-> stanzas[i][3][2]] = ReferenceOrder(r)
         /\ Range(ReferenceOrder(r)) = DOMAIN post[r].tld_zd.files

(***************************************************************************)
(* The claims on the delegation nameservers and on failed runs.            *)
(***************************************************************************)
\* the address the inventories give a name: that of its last accepted line
InventoryHas(fqdn) == Accepting(fqdn) # {}

InventoryIp(fqdn) == LinesRead[Last(Accepting(fqdn))][2][1]

NsConflicts(r, ns) ==
  SelectSeq(run[r].hosts.warnings, LAMBDA w : w[1] = "ns_conflict" /\ w[2] = ns)

\* C17: once the inputs are read, the host table gives every delegation
\* nameserver the address of the delegations file, whatever the inventories
\* say; a run that is not quiet holds one warning, naming the old and the new
\* address, exactly when the inventories gave the name another address, and
\* a quiet run holds none; after a successful run the A and PTR records of
\* the name carry the delegation's address and none carries the replaced one.
C17_DelegationNameserversWin ==
  run[1].pc \in {"base", "records", "finish", "done"} =>
    \A n \in NsPairs :
      LET ns == n[1]
          ip == n[2]
          differs == InventoryHas(ns) /\ InventoryIp(ns) # ip
      IN /\ \A h \in Range(run[1].hosts.hosts_list) : h[1] = ns => h[2] = ip
         /\ <<ns, ip>> \in Range(run[1].hosts.hosts_list)
         /\ NsConflicts(1, ns) = IF differs /\ ~run[1].quiet
                                 THEN << <<"ns_conflict", ns, InventoryIp(ns), ip>> >>
                                 ELSE <<>>
         /\ Succeeded(1) =>
              /\ HasA(ns, ip)
              /\ HasPTR(ns, ip)
              /\ run[1].result.warnings = run[1].hosts.warnings
              /\ (differs /\ <<ns, InventoryIp(ns)>> \notin Range(InfraPairs)) =>
                   ~HasA(ns, InventoryIp(ns)) /\ ~HasPTR(ns, InventoryIp(ns))

\* a run that is not quiet succeeded on a nameserver the inventories give
\* another address, with the warning and the records of the delegation
C17_Witness ==
  /\ Succeeded(1)
  /\ ~run[1].quiet
  /\ \E n \in NsPairs :
       /\ InventoryHas(n[1])
       /\ InventoryIp(n[1]) # n[2]
       /\ NsConflicts(1, n[1]) # <<>>
       /\ HasA(n[1], n[2])
       /\ ~HasA(n[1], InventoryIp(n[1]))

\* C18: a run that ends without success returns zones_created = 0 and
\* hosts_processed = 0.
C18_FailedRunCountsNothing ==
  \A r \in Runs :
    (run[r].pc = "done" /\ ~run[r].result.success) =>
      /\ run[r].result.zones_created = 0
      /\ run[r].result.hosts_processed = 0

\* run r ended without success after it had written named.conf
FailedWriting(r) ==
  /\ run[r].pc = "done"
  /\ ~run[r].result.success
  /\ pre[r].began
  /\ post[r].named_conf.exists
  /\ post[r].named_conf # pre[r].out.named_conf

ZoneFilesIn(tree) ==
  (IF tree.root_zd.exists THEN Cardinality(DOMAIN tree.root_zd.files) ELSE 0)
    + (IF tree.tld_zd.exists THEN Cardinality(DOMAIN tree.tld_zd.files) ELSE 0)

\* C19: a status response that follows a run which failed after it had
\* written named.conf, with no generation taken up since, does not say
\* configured and counts no zone file beyond those the run found.
C19_PartialOutputNotPresented ==
  \A r \in Runs :
    (/\ status.asked
     /\ FailedWriting(r)
     /\ \A q \in Runs : q > r => run[q].pc \in {"new", "queued"} \/ Refused(q)) =>
      /\ ~status.configured
      /\ status.zone_count <= ZoneFilesIn(pre[r].out)

\* C20: a run has ended exactly when generate has returned its result; the
\* result holds a success flag, the counts and the two message lists, and
\* the result of a run that ended without success holds an error message.
C20_AlwaysAStructuredResult ==
  \A r \in Runs :
    /\ run[r].pc = "done" <=> run[r].result.returned
    /\ run[r].pc = "done" =>
         /\ run[r].result.success \in BOOLEAN
         /\ run[r].result.zones_created \in Nat
         /\ run[r].result.hosts_processed \in Nat
         /\ run[r].result.hosts_skipped \in Nat
         /\ DOMAIN run[r].result.warnings = 1..Len(run[r].result.warnings)
         /\ DOMAIN run[r].result.errors = 1..Len(run[r].result.errors)
         /\ ~run[r].result.success => run[r].result.errors # <<>>

\* a run that was taken up and failed has returned its result with the error
C20_Witness ==
  \E r \in Runs :
    /\ run[r].pc = "done"
    /\ ~Refused(r)
    /\ run[r].result.returned
    /\ ~run[r].result.success
    /\ run[r].result.errors # <<>>

(***************************************************************************)
(* Delegation Store on the bytes of the file: update_delegations_file      *)
(* writes a description as three bash arrays, parse_delegations_file reads  *)
(* them back with regular expressions.  A text is a sequence of            *)
(* characters; the line that opens a section is one element of the text.   *)
(***************************************************************************)
Quote == "'"

Whitespace == {" ", "\n"}

\* "declare -A DELEGATIONS_FWD=("
Declare(section) == <<"declare", section, "(">>

RECURSIVE Join(_, _)
\* sep.join(texts)
Join(texts, sep) ==
  IF texts = <<>> THEN <<>>
  ELSE IF Len(texts) = 1 THEN texts[1]
  ELSE texts[1] \o sep \o Join(Tail(texts), sep)

RECURSIVE SplitFrom(_, _, _)
SplitFrom(text, i, word) ==
  IF i > Len(text) THEN (IF word = <<>> THEN <<>> ELSE <<word>>)
  ELSE IF text[i] \in Whitespace
       THEN (IF word = <<>> THEN <<>> ELSE <<word>>) \o SplitFrom(text, i + 1, <<>>)
       ELSE SplitFrom(text, i + 1, Append(word, text[i]))

\* str.split(): the words between runs of whitespace
Split(text) == SplitFrom(text, 1, <<>>)

\* f"  ['{key}']='{value}'\n"
EntryLine(key, value) ==
  <<" ", " ", "[", Quote>> \o key \o <<Quote, "]", "=", Quote>> \o value \o <<Quote, "\n">>

\* the content update_delegations_file writes for a description
SerializeDelegations(d) ==
  <<"#!/bin/bash", "\n", "\n">>
    \o Declare("FWD") \o <<"\n">>
    \o Flatten([i \in DOMAIN d.forward |->
                  EntryLine(d.forward[i].domain_or_network,
                            Join(d.forward[i].nameservers, <<" ">>))])
    \o <<")", "\n", "\n">>
    \o Declare("REV") \o <<"\n">>
    \o Flatten([i \in DOMAIN d.reverse |->
                  EntryLine(d.reverse[i].domain_or_network,
                            Join(d.reverse[i].nameservers, <<" ">>))])
    \o <<")", "\n", "\n">>
    \o Declare("NS") \o <<"\n">>
    \o Flatten([i \in DOMAIN d.nameservers |->
                  EntryLine(d.nameservers[i].hostname, d.nameservers[i].ip_address)])
    \o <<")", "\n">>

\* the first position from i on that holds c, or 0
IndexFrom(text, c, i) ==
  LET at == {j \in i..Len(text) : text[j] = c}
  IN IF at = {} THEN 0 ELSE CHOOSE j \in at : \A k \in at : j <= k

\* re.search(r'declare -A DELEGATIONS_X=\((.*?)\)', content, re.DOTALL):
\* from the first opening line of the section up to the next ")"
SectionBody(content, section) ==
  LET opens == {i \in 1..(Len(content) - 2) : SubSeq(content, i, i + 2) = Declare(section)}
  IN IF opens = {} THEN [found |-> FALSE, body |-> <<>>]
     ELSE LET o == CHOOSE i \in opens : \A k \in opens : i <= k
              c == IndexFrom(content, ")", o + 3)
          IN IF c = 0 THEN [found |-> FALSE, body |-> <<>>]
             ELSE [found |-> TRUE, body |-> SubSeq(content, o + 3, c - 1)]

\* a match of \['([^']+)'\]='([^']+)' that starts at position i
EntryMatchAt(text, i) ==
  LET q1 == IndexFrom(text, Quote, i + 2)
      q2 == IF q1 = 0 THEN 0 ELSE IndexFrom(text, Quote, q1 + 4)
  IN IF /\ i + 1 <= Len(text)
        /\ text[i] = "["
        /\ text[i + 1] = Quote
        /\ q1 > i + 2
        /\ q1 + 3 <= Len(text)
        /\ SubSeq(text, q1 + 1, q1 + 3) = <<"]", "=", Quote>>
        /\ q2 > q1 + 4
     THEN [found |-> TRUE, key |-> SubSeq(text, i + 2, q1 - 1),
           value |-> SubSeq(text, q1 + 4, q2 - 1), end |-> q2]
     ELSE [found |-> FALSE, key |-> <<>>, value |-> <<>>, end |-> i]

RECURSIVE FindEntries(_, _)
\* re.finditer over a section body: the matches from left to right
FindEntries(text, i) ==
  IF i > Len(text) THEN <<>>
  ELSE LET m == EntryMatchAt(text, i)
       IN IF m.found
          THEN <<[key |-> m.key, value |-> m.value]>> \o FindEntries(text, m.end + 1)
          ELSE FindEntries(text, i + 1)

SectionEntries(content, section) ==
  LET sec == SectionBody(content, section)
  IN IF sec.found THEN FindEntries(sec.body, 1) ELSE <<>>

NoDescription == [forward |-> <<>>, reverse |-> <<>>, nameservers |-> <<>>]

\* parse_delegations_file on the bytes of the file
ParseDelegations(f) ==
  IF ~f.exists THEN NoDescription
  ELSE LET fwd == SectionEntries(f.content, "FWD")
           rev == SectionEntries(f.content, "REV")
           ns == SectionEntries(f.content, "NS")
       IN [forward |-> [i \in DOMAIN fwd |->
                          [domain_or_network |-> fwd[i].key,
                           nameservers |-> Split(fwd[i].value)]],
           reverse |-> [i \in DOMAIN rev |->
                          [domain_or_network |-> rev[i].key,
                           nameservers |-> Split(rev[i].value)]],
           nameservers |-> [i \in DOMAIN ns |->
                              [hostname |-> ns[i].key, ip_address |-> ns[i].value]]]

RECURSIVE LabelsFrom(_, _, _)
LabelsFrom(text, i, label) ==
  IF i > Len(text) THEN <<label>>
  ELSE IF text[i] = "." THEN <<label>> \o LabelsFrom(text, i + 1, "")
  ELSE LabelsFrom(text, i + 1, label \o text[i])

\* a name or an address of the file as the labels between its dots
Labels(text) == LabelsFrom(text, 1, "")

\* the delegation description generation finds in a file of these bytes
DelegationsOf(f) ==
  LET d == ParseDelegations(f)
      entry(e) == <<Labels(e.domain_or_network),
                    [j \in DOMAIN e.nameservers |-> Labels(e.nameservers[j])]>>
  IN [exists |-> f.exists,
      forward |-> [i \in DOMAIN d.forward |-> entry(d.forward[i])],
      reverse |-> [i \in DOMAIN d.reverse |-> entry(d.reverse[i])],
      nameservers |-> [i \in DOMAIN d.nameservers |->
                         <<Labels(d.nameservers[i].hostname),
                           Labels(d.nameservers[i].ip_address)>>]]

\* PUT /delegations: update_delegations_file writes the description sent
UpdateDelegations(d) ==
  /\ \A q \in Runs : ~InProgress(q)
  /\ Len(round_trips) < MaxPuts
  /\ delegations_text' = FileOf(SerializeDelegations(d))
  /\ round_trips' = Append(round_trips, [sent |-> d, bytes |-> delegations_text'.content])
  /\ delegations_read' = [asked |-> FALSE]
  /\ delegations_file' = DelegationsOf(delegations_text')
  /\ mtime' = [mtime EXCEPT !["delegations"] = clock]
  /\ stale' = [after |-> stale.after \/ ChangedAfterGeneration,
               during |-> stale.during \/ ChangedDuringGeneration("delegations")]
  /\ status' = NoStatus
  /\ UNCHANGED <<inv, out_vars, run, hist_vars, failures, edits, clock, reply>>

\* GET /delegations: the response is what parse_delegations_file returns
GetDelegations ==
  /\ \A q \in Runs : ~InProgress(q)
  /\ ~delegations_read.asked
  /\ delegations_read' = [asked |-> TRUE, config |-> ParseDelegations(delegations_text)]
  /\ status' = NoStatus
  /\ UNCHANGED <<in_vars, out_vars, run, hist_vars, failures, edits, time_vars, stale,
                 delegations_text, round_trips, reply>>

(***************************************************************************)
(* The delegation description edited through the API: a client puts a      *)
(* description, then reads it and puts back what it has read.              *)
(***************************************************************************)
Chars == {"a", " ", Quote, ")"}

Names == SeqsUpTo(Chars, MaxName)

FwdEntries ==
  {[domain_or_network |-> k, nameservers |-> ns] : k \in Names, ns \in SeqsUpTo(Names, 1)}

RevEntries ==
  {[domain_or_network |-> <<"1">>, nameservers |-> ns] :
     ns \in SeqsUpTo({<<>>, <<"a">>, <<" ">>}, MaxNs)}

NsEntries ==
  {[hostname |-> <<"a">>, ip_address |-> ip] : ip \in {<<>>, <<"1">>}}

Descriptions ==
  [forward : SeqsUpTo(FwdEntries, MaxEntries),
   reverse : SeqsUpTo(RevEntries, 1),
   nameservers : SeqsUpTo(NsEntries, 1)]

\* what the client sends: any description first, then the description it read
Sent ==
  IF round_trips = <<>> THEN Descriptions
  ELSE IF delegations_read.asked THEN {delegations_read.config}
  ELSE {}

InitStoreSpec ==
  /\ inv = InventoriesOf(<<>>)
  /\ delegations_file = NoDelegations
  /\ InitOutputs
  /\ run = [r \in Runs |-> NewRun]
  /\ failures = 0
  /\ edits = 0
  /\ InitTimes
  /\ InitStore

NextStore ==
  \/ \E d \in Sent : UpdateDelegations(d)
  \/ GetDelegations

SpecStore == InitStoreSpec /\ [][NextStore]_vars

(***************************************************************************)
(* The claims on the Delegation Store.                                     *)
(***************************************************************************)
\* C21: when a client reads the description and puts back what it read,
\* every file written after the first such serialization has the bytes of
\* the first; and reading a description that was put returns the forward,
\* reverse and nameserver entries that were put, in their order.
C21_RoundTripIsStable ==
  /\ \A i \in 3..Len(round_trips) : round_trips[i].bytes = round_trips[2].bytes
  /\ (delegations_read.asked /\ round_trips # <<>>) =>
       delegations_read.config = round_trips[Len(round_trips)].sent

(***************************************************************************)
(* The claims on the records of the generated zones.                       *)
(***************************************************************************)
\* the owner of line i of a zone file: a line without an owner has the owner
\* of the line before it
OwnerAt(lines, i) ==
  LET named == {k \in 1..i : lines[k][1] # <<>>}
  IN IF named = {} THEN <<"@">>
     ELSE lines[CHOOSE k \in named : \A m \in named : m <= k][1]

\* an owner as a name from the root: "@" is the origin of the file, a name
\* that does not end with a dot is under the origin
Absolute(owner, origin) ==
  IF owner = <<"@">> THEN origin
  ELSE IF owner # <<>> /\ owner[Len(owner)] = "" THEN owner
  ELSE owner \o origin

\* the NS records, and the A records of the names an NS record of the file
\* points at, as <<owner from the root, type, target>> by line
NsAndGlue(lines, origin) ==
  LET rec(i) == <<Absolute(OwnerAt(lines, i), origin), lines[i][2], lines[i][3]>>
      nsTargets == {lines[i][3] : i \in {k \in DOMAIN lines : lines[k][2] = "NS"}}
  IN [i \in {k \in DOMAIN lines :
               \/ lines[k][2] = "NS"
               \/ lines[k][2] = "A" /\ rec(k)[1] \in nsTargets} |-> rec(i)]

NoDuplicate(lines, origin) ==
  LET recs == NsAndGlue(lines, origin)
  IN \A i, j \in DOMAIN recs : i # j => recs[i] # recs[j]

\* C22: after a successful generation no zone file of the TLD tier and not
\* the root zone holds two NS records, or two A records of a nameserver,
\* with the same owner and the same target.
C22_NoDuplicateNsOrGlue ==
  Succeeded(1) =>
    /\ \A key \in DOMAIN tld_zd.files : NoDuplicate(tld_zd.files[key], <<key, "">>)
    /\ NoDuplicate(root_zd.files["root"], <<"">>)

\* the zone keys the pairs of run r need: the top-level label of every name
\* that has one and, for these, the first octet of a four-part address
RequiredZones(r) ==
  LET pairs == {p \in Range(RecordPairs(r)) : _get_tld(p[1]) # ""}
  IN {_get_tld(p[1]) : p \in pairs} \cup {p[2][1] : p \in {q \in pairs : Len(q[2]) = 4}}

InfraZones ==
  {_get_tld(p[1]) : p \in Range(InfraPairs)} \cup {p[2][1] : p \in Range(InfraPairs)}

\* the inventory of the example: 10.0.0.5 shop.biz, mail 10.0.0.9 mail.biz,
\* no delegations
ExampleInventory == inv = InventoriesOf(<< <<1, 1>>, <<5, 7>> >>)

ExampleInputs == ExampleInventory /\ ~delegations_file.exists

\* C23 as stated: on the example zones_created is 2 (biz and 10).
C23_ExampleCreatesTwoZones ==
  (Succeeded(1) /\ ExampleInputs) =>
    /\ run[1].result.zones_created = 2
    /\ run[1].result.hosts_processed >= 2
    /\ run[1].result.hosts_skipped = 0

\* C23 as amended: zones_created is the number of zones the hosts of the
\* host table and the hosts of the three infrastructure tiers need, and
\* these are the zone files; on the example they are biz, 10 and the zones
\* of the infrastructure, with the example's A and PTR records in biz and
\* 10 and the MX record of mail.biz, every host and infrastructure name
\* counted and none skipped.
C23_ZonesOfHostsAndInfrastructure ==
  Succeeded(1) =>
    /\ run[1].result.zones_created = Cardinality(RequiredZones(1))
    /\ DOMAIN tld_zd.files = RequiredZones(1)
    /\ ExampleInputs =>
         /\ RequiredZones(1) = {"biz", "10"} \cup InfraZones
         /\ run[1].result.zones_created = 2 + Cardinality(InfraZones)
         /\ run[1].result.hosts_processed
              = 2 + Len(CACHING_NS) + Len(TOPLEVEL_NS) + Len(ROOT_NS)
         /\ run[1].result.hosts_skipped = 0
         /\ HasA(ShopBiz, Ip("10", "0", "0", "5")) /\ HasA(MailBiz, Ip("10", "0", "0", "9"))
         /\ HasPTR(ShopBiz, Ip("10", "0", "0", "5")) /\ HasPTR(MailBiz, Ip("10", "0", "0", "9"))
         /\ << <<"mail">>, "MX", <<"10">> \o Dot(MailBiz) >> \in ZoneLines("biz")

\* a generation succeeded on the example and counted more than two zones
C23_Witness ==
  /\ Succeeded(1)
  /\ ExampleInputs
  /\ run[1].result.zones_created = 2 + Cardinality(InfraZones)
  /\ {"biz", "10"} \subseteq DOMAIN tld_zd.files

\* C24: on the example inventory with the top-level domain biz delegated to
\* ns1.ext, the two hosts are skipped, the biz zone holds no A record of
\* theirs and holds one NS record, at the apex of the zone, for ns1.ext.
C24_BareTldDelegationExcludesHosts ==
  (Succeeded(1) /\ ExampleInventory /\ delegations_file = BizDelegated) =>
    /\ run[1].result.hosts_skipped = 2
    /\ \A l \in ZoneLines("biz") : l[2] = "A" => l[1] \notin {<<"shop">>, <<"mail">>}
    /\ Cardinality({l \in ZoneLines("biz") : l[2] = "NS" /\ l[3] = Dot(<<"ns1", "ext">>)}) = 1
    /\ \A l \in ZoneLines("biz") :
         (l[2] = "NS" /\ l[3] = Dot(<<"ns1", "ext">>)) => l[1] \in {<<>>, <<"@">>}

\* the accepted lines of the mail inventory, in file order
MailIndex == CHOOSE i \in DOMAIN StatedOrder : StatedOrder[i] = "mail"

MailAccepted ==
  SelectSeq(LinesRead, LAMBDA e : /\ e[1] = MailIndex
                                  /\ Tokenized(e[2])
                                  /\ ~MatchesDelegation(e[2]))

\* the exchangers the mail inventory gives a domain, in file order
ExchangersOf(domain) ==
  LET mine == SelectSeq(MailAccepted, LAMBDA e : DomainOf(e[2][2]) = domain)
  IN [i \in DOMAIN mine |-> mine[i][2][2]]

MailDomains == {DomainOf(MailAccepted[i][2][2]) : i \in DOMAIN MailAccepted}

\* the MX lines of a zone file, in file order
MxLines(key) ==
  IF key \in DOMAIN tld_zd.files
  THEN SelectSeq(tld_zd.files[key], LAMBDA l : l[2] = "MX")
  ELSE <<>>

\* C25: once the inputs are read, the mail-exchanger lists are those of the
\* accepted lines of the mail inventory, by domain and in file order, with
\* duplicates; after a successful generation the MX lines of a domain in the
\* zone of its top-level label are one per list entry, in order, with
\* preference 10, owned by the domain, and the zones hold no other MX line.
C25_MxPerExchanger ==
  run[1].pc \in {"base", "records", "finish", "done"} =>
    /\ {e[1] : e \in Range(run[1].hosts.domain_mx)} = MailDomains
    /\ \A domain \in MailDomains :
         DictGet(run[1].hosts.domain_mx, domain) = ExchangersOf(domain)
    /\ Succeeded(1) =>
         /\ \A domain \in MailDomains :
              SelectSeq(MxLines(domain[2]), LAMBDA l : l[1] = <<domain[1]>>)
                = [i \in DOMAIN ExchangersOf(domain) |->
                     << <<domain[1]>>, "MX", <<"10">> \o Dot(ExchangersOf(domain)[i]) >>]
         /\ \A key \in DOMAIN tld_zd.files :
              \A l \in Range(MxLines(key)) : <<l[1][1], key>> \in MailDomains

\* a generation succeeded on a mail inventory that names an exchanger twice
\* and wrote its two MX lines
C25_Witness ==
  /\ Succeeded(1)
  /\ \E domain \in MailDomains :
       /\ Len(ExchangersOf(domain)) = 2
       /\ ExchangersOf(domain)[1] = ExchangersOf(domain)[2]
       /\ Len(MxLines(domain[2])) = 2

\* the lines of a zone file after its header
DataLines(key) ==
  LET f == tld_zd.files[key]
  IN Range(SubSeq(f, Len(TldZoneHeader) + 1, Len(f)))

ForwardKeys(r) == {_get_tld(p[1]) : p \in {q \in Range(RecordPairs(r)) : _get_tld(q[1]) # ""}}

ReverseKeys(r) ==
  {p[2][1] : p \in {q \in Range(RecordPairs(r)) : _get_tld(q[1]) # "" /\ Len(q[2]) = 4}}

\* C26: after a successful generation no zone file holds forward data (A,
\* MX) next to reverse data (PTR), every forward zone has its stanza and
\* its delegation in the root zone, and every reverse zone has its stanza.
C26_ForwardAndReverseApart ==
  Succeeded(1) =>
    /\ \A key \in DOMAIN tld_zd.files :
         ~ /\ \E l \in DataLines(key) : l[2] \in {"A", "MX"}
           /\ \E l \in DataLines(key) : l[2] = "PTR"
    /\ \A tld \in ForwardKeys(1) :
         /\ ZoneStanza(<<tld>>, tld) \in Range(named_conf.content)
         /\ \E l \in Range(root_zd.files["root"]) : l[1] = <<tld, "">> /\ l[2] = "NS"
    /\ \A ip1 \in ReverseKeys(1) :
         ZoneStanza(<<ip1, "in-addr", "arpa", "">>, ip1) \in Range(named_conf.content)

(***************************************************************************)
(* The claims on quiet_mode, the reported counts and the inventory edits.  *)
(***************************************************************************)
WithoutWarnings(h) == [h EXCEPT !.warnings = <<>>]

\* C27: two successful runs, one quiet and one not, that began on the same
\* output tree and read the same inventories and delegations leave the same
\* output tree and return the same success flag and counts; the host table
\* of a run is, but for its warnings, the table collected with the other
\* value of quiet_mode; and a quiet run returns no warning.
C27_QuietChangesOnlyWarnings ==
  /\ \A r, q \in Runs :
       ( /\ Succeeded(r) /\ Succeeded(q)
         /\ run[r].quiet /\ ~run[q].quiet
         /\ pre[r].out = pre[q].out
         /\ pre[r].inv = pre[q].inv
         /\ pre[r].delegations_file = pre[q].delegations_file ) =>
         /\ post[r] = post[q]
         /\ run[r].result.zones_created = run[q].result.zones_created
         /\ run[r].result.hosts_processed = run[q].result.hosts_processed
         /\ run[r].result.hosts_skipped = run[q].result.hosts_skipped
  /\ \A r \in Runs :
       (run[r].pc \in {"base", "records", "finish"} \/ Succeeded(r)) =>
         /\ WithoutWarnings(run[r].hosts)
              = WithoutWarnings(CollectHosts(pre[r].inv, pre[r].delegations_file, ~run[r].quiet))
         /\ run[r].quiet => run[r].hosts.warnings = <<>>
         /\ Succeeded(r) => run[r].result.warnings = run[r].hosts.warnings

\* a quiet run and a run that is not quiet succeeded on the same inputs, the
\* second with a warning about a skipped host
C27_Witness ==
  \E r, q \in Runs :
    /\ Succeeded(r) /\ Succeeded(q)
    /\ run[r].quiet /\ ~run[q].quiet
    /\ pre[r].out = pre[q].out
    /\ pre[r].inv = pre[q].inv
    /\ pre[r].delegations_file = pre[q].delegations_file
    /\ run[q].result.warnings # <<>>
    /\ run[r].result.hosts_skipped > 0
    /\ post[r] = post[q]

\* the last run that was taken up and not refused
LastRun(r) ==
  /\ run[r].pc = "done"
  /\ ~Refused(r)
  /\ \A q \in Runs : q > r => run[q].pc \in {"new", "queued"} \/ Refused(q)

\* C28: when a run has succeeded, its TLD zone directory holds zones_created
\* zone files; and a status response that follows the successful run, with
\* no other run taken up since, reports zones_created + 1 zones.
C28_ZoneCountMatchesResult ==
  \A r \in Runs :
    Succeeded(r) =>
      /\ Cardinality(DOMAIN post[r].tld_zd.files) = run[r].result.zones_created
      /\ (status.asked /\ LastRun(r)) =>
           status.zone_count = run[r].result.zones_created + 1

\* the lines of the custom inventory that the service reads as entries of fqdn
EntriesFor(f, fqdn) ==
  {i \in DOMAIN ExistingEntries(f) : IsEntryFor(ExistingEntries(f)[i], fqdn)}

\* g is f with line i replaced by or, without such a line, extended with the
\* one line of fqdn, which carries ip_address
SetIn(f, g, ip_address, fqdn) ==
  LET before == ExistingEntries(f)
      after == ExistingEntries(g)
      old == EntriesFor(f, fqdn)
  IN /\ \E i \in DOMAIN after :
          /\ EntriesFor(g, fqdn) = {i}
          /\ after[i] = <<ip_address, fqdn>>
          /\ IF old = {} THEN i = Len(before) + 1 ELSE old = {i}
          /\ Len(after) = IF old = {} THEN Len(before) + 1 ELSE Len(before)
          /\ \A j \in DOMAIN after : j # i => after[j] = before[j]

\* C29: after any sequence of add_custom_dns_entry and remove_custom_dns_entry
\* calls from an empty or absent custom inventory the file holds at most one
\* line per fqdn; after an add the line of the fqdn carries the ip (replaced in
\* place, other lines unchanged); after a remove no line of the fqdn remains and
\* it returns true; a remove of an absent fqdn returns false and changes nothing
C29_OneLinePerFqdn ==
  /\ \A fqdn \in EditFqdns : Cardinality(EntriesFor(inv["custom"], fqdn)) <= 1
  /\ (reply.asked /\ reply.op = "add_custom_dns_entry" /\ ~reply.raised) =>
       SetIn(reply.before, inv["custom"], reply.args.ip_address, reply.args.fqdn)
  /\ (reply.asked /\ reply.op = "remove_custom_dns_entry") =>
       IF EntriesFor(reply.before, reply.args.fqdn) # {}
       THEN /\ reply.returned
            /\ EntriesFor(inv["custom"], reply.args.fqdn) = {}
            /\ ExistingEntries(inv["custom"]) =
                 SelectSeq(ExistingEntries(reply.before),
                           LAMBDA l : ~IsEntryFor(l, reply.args.fqdn))
       ELSE ~reply.returned /\ inv["custom"] = reply.before

\* a line that is neither blank nor a comment and lacks a valid address or name
Malformed(l) ==
  /\ l # <<>> /\ ~IsComment(l)
  /\ Len(l) < 2 \/ ~_validate_ip(l[1]) \/ ~_validate_fqdn(l[2])

\* the input of the edit that was answered with r fails validation
FailsValidation(r) ==
  IF r.op = "update_hosts_file"
  THEN \E i \in DOMAIN FileLines(r.args.content) :
         Malformed(FileLines(r.args.content)[i])
  ELSE /\ r.op \in {"add_custom_dns_entry", "add_mail_host_entry"}
       /\ ~_validate_ip(r.args.ip_address) \/ ~_validate_fqdn(r.args.fqdn)

\* C30: an edit that fails validation (add_custom_dns_entry or
\* add_mail_host_entry with an invalid ip or fqdn, update_hosts_file with
\* content of which a line, as the file will hold it, is malformed) raises an
\* error and neither creates nor changes any inventory file
C30_InvalidEditsChangeNothing ==
  [][(edits' < edits /\ reply'.asked /\ FailsValidation(reply')) =>
       /\ reply'.raised
       /\ inv' = inv
       /\ mtime' = mtime]_vars
====
